---------------------------- MODULE Spec2Model ----------------------------
(***************************************************************************)
(* The split/tab layout tree of extraterm's SplitLayout                    *)
(* (src/extraterm/src/render_process/SplitLayout.ts).                      *)
(*                                                                         *)
(* The tree is modelled as a nested value.  Objects that the code compares *)
(* by reference are told apart by the identity the code itself gives them: *)
(* a tab widget by the number _nextTabWidgetId() puts into its id, a node  *)
(* of the tree by its position (the sequence of child indices from the     *)
(* root), a slot by its position in the children of its group.             *)
(***************************************************************************)
EXTENDS Integers, Sequences, FiniteSets, TLC

-----------------------------------------------------------------------------
(* Bounds of the model *)

\* No split is attempted once tabWidgetIdCounter has reached this value.
MaxTabWidgetId == 4

\* appendTab is not called once the tree holds this many slots.
MaxSlots == 3

\* Neither is attempted once the tab widgets ever created and the slots of the
\* tree together number this many.
MaxNodes == 5

\* The caller owns the content elements 1..NumContents.
NumContents == 2

\* null / undefined
NULL == 0

Contents == 1..NumContents

\* The tab handle the caller has made for content element c.  Tab handles and
\* content elements are objects of different classes; the code never compares
\* one with the other.
TabOf(c) == c

Tabs == {TabOf(c) : c \in Contents}

\* A tab widget that is never part of the tree.
ForeignTabWidget == MaxTabWidgetId + 1

\* Indexes handed to moveTabToTabWidget.
TabIndexes == (-1)..MaxSlots

\* SplitOrientation
VERTICAL == "VERTICAL"

HORIZONTAL == "HORIZONTAL"

SplitOrientation == {VERTICAL, HORIZONTAL}

-----------------------------------------------------------------------------
VARIABLES
  rootInfoNode,        \* SplitLayout._rootInfoNode
  tabWidgetIdCounter,  \* module-level tabWidgetIdCounter
  call,                \* the name of the last call made
  pre,                 \* _rootInfoNode as it was when the last call started
  preCounter,          \* tabWidgetIdCounter as it was when the last call started
  result,              \* what the last call returned (NULL for void / null)
  thrown,              \* TRUE iff the last call ended in a TypeError
  rootContainer,                    \* SplitLayout._rootContainer
  emptySplitFactory,                \* SplitLayout._emptySplitFactory
  topLeftElement,                   \* SplitLayout._topLeftElement
  topRightElement,                  \* SplitLayout._topRightElement
  leftSpaceDefaultElementFactory,   \* SplitLayout._leftSpaceDefaultElementFactory
  rightSpaceDefaultElementFactory,  \* SplitLayout._rightSpaceDefaultElementFactory
  tabIdCounter,        \* module-level tabIdCounter
  document,            \* the elements created so far, their children, showTabs
  preDocument,         \* document as it was when the last call started
  session,             \* the run of calls the last call belongs to
  geometry,            \* where the toolkit has laid the widgets out
  windowId,            \* SplitLayout._windowId
  tabWidgetWindowId    \* the windowId of each tab widget made, by its id

layoutVars == <<rootInfoNode, tabWidgetIdCounter, call, pre, preCounter, result, thrown>>

configVars == <<rootContainer, emptySplitFactory, topLeftElement, topRightElement,
                leftSpaceDefaultElementFactory, rightSpaceDefaultElementFactory>>

vars == <<layoutVars, configVars, tabIdCounter, document, preDocument, session,
          geometry, windowId, tabWidgetWindowId>>

-----------------------------------------------------------------------------
(* Generic helpers *)

Min(S) == CHOOSE x \in S : \A y \in S : x <= y

Max(S) == CHOOSE x \in S : \A y \in S : x >= y

\* Array.prototype.slice(start, end) on a sequence, with JavaScript's handling
\* of negative and out-of-range arguments; end is exclusive, both 0-based.
SliceIndex(n, i) == IF i < 0 THEN Max({n + i, 0}) ELSE Min({i, n})

Slice(s, start, end) ==
  LET a == SliceIndex(Len(s), start)
      b == SliceIndex(Len(s), end)
  IN  IF a >= b THEN <<>> ELSE SubSeq(s, a + 1, b)

\* A slice that starts one element late.
MutantSliceFrom(s, start) == Slice(s, start + 1, Len(s))

SliceFrom(s, start) == Slice(s, start, Len(s))

\* A removal that takes the first element whatever k is.
MutantRemoveAt(s, k) == Tail(s)

\* s without its k-th element (1-based): filter(x => x !== s[k]) when the
\* object s[k] occurs once in s.
RemoveAt(s, k) == SubSeq(s, 1, k - 1) \o SubSeq(s, k + 1, Len(s))

\* Array.prototype.splice(k-1, 0, x): x becomes the k-th element (1-based).
InsertAt(s, k, x) == SubSeq(s, 1, k - 1) \o <<x>> \o SubSeq(s, k, Len(s))

RECURSIVE Flatten(_)
Flatten(ss) == IF ss = <<>> THEN <<>> ELSE Head(ss) \o Flatten(Tail(ss))

-----------------------------------------------------------------------------
(* Nodes *)

\* {type: "tabinfo", tab, content, container: null}
NewTabInfo(tab, content) ==
  [type |-> "tabinfo", tab |-> tab, content |-> content, container |-> NULL]

\* tabInfo: null, what findTabWidgetInfoByTab gives for a group's empty tab.
NullTabInfo == [type |-> "null"]

\* _createTabWidgetInfo: a group around a tab widget whose id is `id`.
CreateTabWidgetInfo(children, id) ==
  [type |-> "tabwidget", children |-> children, tabWidget |-> id,
   emptyTab |-> NULL, emptyTabContent |-> NULL, emptyContainer |-> NULL,
   leftSpaceDefaultElement |-> NULL, rightSpaceDefaultElement |-> NULL]

NewSplitter(children, orientation) ==
  [type |-> "splitter", children |-> children, orientation |-> orientation,
   splitter |-> NULL]

\* A path is the sequence of child indexes leading from a node down to a
\* descendant; NoPath stands for the null the find functions return.
NoPath == <<0>>

RECURSIVE NodeAt(_, _)
NodeAt(node, path) ==
  IF path = <<>> THEN node ELSE NodeAt(node.children[Head(path)], Tail(path))

RECURSIVE ReplaceAt(_, _, _)
ReplaceAt(node, path, new) ==
  IF path = <<>> THEN new
  ELSE [node EXCEPT !.children[Head(path)] = ReplaceAt(@, Tail(path), new)]

Front(path) == SubSeq(path, 1, Len(path) - 1)

Last(path) == path[Len(path)]

-----------------------------------------------------------------------------
(* Searches *)

RECURSIVE findPathToTabWidget(_, _)
findPathToTabWidget(infoNode, tabWidget) ==
  IF infoNode.type = "splitter" THEN
    LET hits == {i \in DOMAIN infoNode.children :
                   findPathToTabWidget(infoNode.children[i], tabWidget) # NoPath}
    IN  IF hits = {} THEN NoPath
        ELSE <<Min(hits)>> \o findPathToTabWidget(infoNode.children[Min(hits)], tabWidget)
  ELSE IF infoNode.tabWidget = tabWidget THEN <<>> ELSE NoPath

\* findTabWidgetInfoByTabWidget returns the node findPathToTabWidget ends at.
findTabWidgetInfoByTabWidget(root, tabWidget) == findPathToTabWidget(root, tabWidget)

\* The tab-group reached by a search through the contents or the tabs: `path`
\* leads to the group, `slot` is the position of the tabinfo in its children
\* (0 stands for tabInfo: null, the group's empty state).  NoHit is null.
Hit(path, slot) == [path |-> path, slot |-> slot]

NoHit == Hit(NoPath, 0)

\* Position of the first slot of a group whose `field` is `value`; 0 if none.
FirstSlot(children, field, value) ==
  LET hits == {k \in DOMAIN children : children[k][field] = value}
  IN  IF hits = {} THEN 0 ELSE Min(hits)

\* A search that looks into the first child of a splitter only.
RECURSIVE Mutant_findPathToTabContent(_, _)
Mutant_findPathToTabContent(infoNode, tabContent) ==
  IF infoNode.type = "splitter" THEN
    LET sub == Mutant_findPathToTabContent(infoNode.children[1], tabContent)
    IN  IF sub = NoHit THEN NoHit ELSE Hit(<<1>> \o sub.path, sub.slot)
  ELSE IF infoNode.emptyTabContent = tabContent THEN Hit(<<>>, 0)
  ELSE IF FirstSlot(infoNode.children, "content", tabContent) # 0
       THEN Hit(<<>>, FirstSlot(infoNode.children, "content", tabContent))
  ELSE NoHit

RECURSIVE findPathToTabContent(_, _)
findPathToTabContent(infoNode, tabContent) ==
  IF infoNode.type = "splitter" THEN
    LET hits == {i \in DOMAIN infoNode.children :
                   findPathToTabContent(infoNode.children[i], tabContent) # NoHit}
    IN  IF hits = {} THEN NoHit
        ELSE LET sub == findPathToTabContent(infoNode.children[Min(hits)], tabContent)
             IN  Hit(<<Min(hits)>> \o sub.path, sub.slot)
  ELSE IF infoNode.emptyTabContent = tabContent THEN Hit(<<>>, 0)
  ELSE IF FirstSlot(infoNode.children, "content", tabContent) # 0
       THEN Hit(<<>>, FirstSlot(infoNode.children, "content", tabContent))
  ELSE NoHit

\* findTabWidgetInfoByTabContent walks the tree exactly as findPathToTabContent
\* does and returns the last one or two nodes of that path.
findTabWidgetInfoByTabContent(infoNode, tabContent) ==
  findPathToTabContent(infoNode, tabContent)

RECURSIVE findTabWidgetInfoByTab(_, _)
findTabWidgetInfoByTab(infoNode, tab) ==
  IF infoNode.type = "splitter" THEN
    LET hits == {i \in DOMAIN infoNode.children :
                   findTabWidgetInfoByTab(infoNode.children[i], tab) # NoHit}
    IN  IF hits = {} THEN NoHit
        ELSE LET sub == findTabWidgetInfoByTab(infoNode.children[Min(hits)], tab)
             IN  Hit(<<Min(hits)>> \o sub.path, sub.slot)
  ELSE IF Len(infoNode.children) = 0
       THEN IF infoNode.emptyTab = tab THEN Hit(<<>>, 0) ELSE NoHit
  ELSE IF FirstSlot(infoNode.children, "tab", tab) # 0
       THEN Hit(<<>>, FirstSlot(infoNode.children, "tab", tab))
  ELSE NoHit

\* A search that descends into the last child that holds a tab-group.
RECURSIVE Mutant_firstTabWidgetInfo(_)
Mutant_firstTabWidgetInfo(infoNode) ==
  IF infoNode.type = "tabwidget" THEN <<>>
  ELSE LET hits == {i \in DOMAIN infoNode.children :
                      Mutant_firstTabWidgetInfo(infoNode.children[i]) # NoPath}
       IN  IF hits = {} THEN NoPath
           ELSE <<Max(hits)>> \o Mutant_firstTabWidgetInfo(infoNode.children[Max(hits)])

\* Path to the first tab-group in depth-first child order; NoPath for null.
RECURSIVE firstTabWidgetInfo(_)
firstTabWidgetInfo(infoNode) ==
  IF infoNode.type = "tabwidget" THEN <<>>
  ELSE LET hits == {i \in DOMAIN infoNode.children :
                      firstTabWidgetInfo(infoNode.children[i]) # NoPath}
       IN  IF hits = {} THEN NoPath
           ELSE <<Min(hits)>> \o firstTabWidgetInfo(infoNode.children[Min(hits)])

\* The tab widget of the first tab-group, NULL when there is none.
firstTabWidget(infoNode) ==
  IF firstTabWidgetInfo(infoNode) = NoPath THEN NULL
  ELSE NodeAt(infoNode, firstTabWidgetInfo(infoNode)).tabWidget

RECURSIVE getAllTabWidgets(_)
getAllTabWidgets(infoNode) ==
  IF infoNode.type = "splitter" THEN
    Flatten([i \in DOMAIN infoNode.children |-> getAllTabWidgets(infoNode.children[i])])
  ELSE <<infoNode.tabWidget>>

\* Every slot of the tree, in depth-first, left-to-right order.
RECURSIVE AllTabInfos(_)
AllTabInfos(infoNode) ==
  IF infoNode.type = "splitter" THEN
    Flatten([i \in DOMAIN infoNode.children |-> AllTabInfos(infoNode.children[i])])
  ELSE infoNode.children

getAllTabContents(infoNode) ==
  [k \in DOMAIN AllTabInfos(infoNode) |-> AllTabInfos(infoNode)[k].content]

NumSlots(infoNode) == Len(AllTabInfos(infoNode))

Range(s) == {s[i] : i \in DOMAIN s}

RECURSIVE NumSplitters(_)
NumSplitters(node) ==
  IF node.type = "splitter"
  THEN 1 + Len(Flatten([i \in DOMAIN node.children |->
                          [j \in 1..NumSplitters(node.children[i]) |-> 0]]))
  ELSE 0

InTree(root, tabWidget) == tabWidget \in Range(getAllTabWidgets(root))

\* Tab widgets a caller may name: those of the tree and one that is not in it.
TabWidgets(root) == Range(getAllTabWidgets(root)) \cup {ForeignTabWidget}

-----------------------------------------------------------------------------
(* Operations.  Each is a function of the layout before the call and gives *)
(* the layout after it together with the value returned.                   *)

Outcome(root, counter, res, thr) ==
  [root |-> root, counter |-> counter, result |-> res, thrown |-> thr]

\* An id that is handed out again and again.
MutantNextTabWidgetId(counter) == counter

\* _nextTabWidgetId
NextTabWidgetId(counter) == counter + 1

\* appendTab with unshift in the place of push.
Mutant_appendTab(root, counter, tabWidget, tab, tabContent) ==
  LET info == findTabWidgetInfoByTabWidget(root, tabWidget)
  IN  IF info = NoPath THEN Outcome(root, counter, NULL, FALSE)
      ELSE Outcome(
             ReplaceAt(root, info,
               [NodeAt(root, info) EXCEPT
                  !.children = <<NewTabInfo(tab, tabContent)>> \o @]),
             counter, NULL, FALSE)

appendTab(root, counter, tabWidget, tab, tabContent) ==
  LET info == findTabWidgetInfoByTabWidget(root, tabWidget)
  IN  IF info = NoPath THEN Outcome(root, counter, NULL, FALSE)
      ELSE Outcome(
             ReplaceAt(root, info,
               [NodeAt(root, info) EXCEPT
                  !.children = Append(@, NewTabInfo(tab, tabContent))]),
             counter, NULL, FALSE)

\* An isSplit that asks for a splitter below the root.
Mutant_isSplit(root) ==
  /\ root.type = "splitter"
  /\ \E i \in DOMAIN root.children : root.children[i].type = "splitter"

isSplit(root) == root.type = "splitter"

\* removeTabContent with a filter on the content in the place of the filter on
\* the slot object: every slot holding tabContent goes.
Mutant_removeTabContent(root, counter, tabContent) ==
  LET info == findTabWidgetInfoByTabContent(root, tabContent)
  IN  IF info = NoHit \/ info.slot = 0 THEN Outcome(root, counter, NULL, FALSE)
      ELSE Outcome(
             ReplaceAt(root, info.path,
               [NodeAt(root, info.path) EXCEPT
                  !.children = SelectSeq(@, LAMBDA kid : kid.content # tabContent)]),
             counter, NULL, FALSE)

removeTabContent(root, counter, tabContent) ==
  LET info == findTabWidgetInfoByTabContent(root, tabContent)
  IN  IF info = NoHit \/ info.slot = 0 THEN Outcome(root, counter, NULL, FALSE)
      ELSE Outcome(
             ReplaceAt(root, info.path,
               [NodeAt(root, info.path) EXCEPT !.children = RemoveAt(@, info.slot)]),
             counter, NULL, FALSE)

\* _splitAfterTabWidgetIntoSplitter with the two children the other way round.
Mutant_splitAfterTabWidgetIntoSplitter(tabWidgetInfo, orientation, id) ==
  NewSplitter(<<CreateTabWidgetInfo(<<>>, id), tabWidgetInfo>>, orientation)

_splitAfterTabWidgetIntoSplitter(tabWidgetInfo, orientation, id) ==
  NewSplitter(<<tabWidgetInfo, CreateTabWidgetInfo(<<>>, id)>>, orientation)

\* The sibling index without the + 1.
MutantSiblingIndex(index) == index

\* Where the new sibling goes: indexOf(tabWidgetInfo) + 1.
SiblingIndex(index) == index + 1

\* splitAfterTabWidget without the test of the parent's orientation: the
\* group is always replaced by a new splitter.
Mutant_splitAfterTabWidget(root, counter, tabWidget, orientation) ==
  LET path == findPathToTabWidget(root, tabWidget)
      id == NextTabWidgetId(counter)
  IN  IF path = NoPath THEN Outcome(root, counter, NULL, FALSE)
      ELSE Outcome(
             ReplaceAt(root, path,
               _splitAfterTabWidgetIntoSplitter(NodeAt(root, path), orientation, id)),
             id, id, FALSE)

splitAfterTabWidget(root, counter, tabWidget, orientation) ==
  LET path == findPathToTabWidget(root, tabWidget)
      id == NextTabWidgetId(counter)
  IN  IF path = NoPath THEN Outcome(root, counter, NULL, FALSE)
      ELSE IF Len(path) = 0 THEN
        Outcome(_splitAfterTabWidgetIntoSplitter(root, orientation, id), id, id, FALSE)
      ELSE
        LET splitterInfo == NodeAt(root, Front(path))
            tabWidgetInfo == NodeAt(root, path)
            index == Last(path)
        IN  IF splitterInfo.orientation = orientation THEN
              Outcome(
                ReplaceAt(root, Front(path),
                  [splitterInfo EXCEPT
                     !.children = InsertAt(@, SiblingIndex(index), CreateTabWidgetInfo(<<>>, id))]),
                id, id, FALSE)
            ELSE
              Outcome(
                ReplaceAt(root, path,
                  _splitAfterTabWidgetIntoSplitter(tabWidgetInfo, orientation, id)),
                id, id, FALSE)

\* swapArrayItems that pushes every item as it is.
Mutant_swapArrayItems(array, item1, item2) == array

swapArrayItems(array, item1, item2) ==
  [i \in DOMAIN array |->
     IF array[i] = item1 THEN item2
     ELSE IF array[i] = item2 THEN item1
     ELSE array[i]]

splitBeforeTabWidget(root, counter, tabWidget, orientation) ==
  LET after == splitAfterTabWidget(root, counter, tabWidget, orientation)
      newTabWidgetPath == findPathToTabWidget(after.root, after.result)
  IN  IF newTabWidgetPath = NoPath \/ newTabWidgetPath = <<>>
      THEN Outcome(after.root, after.counter, NULL, TRUE)
      ELSE
        LET splitterInfo == NodeAt(after.root, Front(newTabWidgetPath))
            newTabWidgetInfo == NodeAt(after.root, newTabWidgetPath)
            tabWidgetPath == findPathToTabWidget(splitterInfo, tabWidget)
        IN  IF tabWidgetPath = NoPath
            THEN Outcome(after.root, after.counter, NULL, TRUE)
            ELSE
              Outcome(
                ReplaceAt(after.root, Front(newTabWidgetPath),
                  [splitterInfo EXCEPT
                     !.children = swapArrayItems(@, newTabWidgetInfo,
                                                 NodeAt(splitterInfo, tabWidgetPath))]),
                after.counter, after.result, FALSE)

\* _splitTabWidgetAtTabContent without the + 1 in splitIndex.
Mutant_splitTabWidgetAtTabContent(tabWidgetInfo, tabContent, id) ==
  LET splitIndex == FirstSlot(tabWidgetInfo.children, "content", tabContent) - 1
  IN  << [tabWidgetInfo EXCEPT !.children = Slice(@, 0, splitIndex)],
         CreateTabWidgetInfo(SliceFrom(tabWidgetInfo.children, splitIndex), id) >>

\* The pair [group keeping the slots up to tabContent, new group with the rest].
_splitTabWidgetAtTabContent(tabWidgetInfo, tabContent, id) ==
  LET splitIndex == FirstSlot(tabWidgetInfo.children, "content", tabContent)
  IN  << [tabWidgetInfo EXCEPT !.children = Slice(@, 0, splitIndex)],
         CreateTabWidgetInfo(SliceFrom(tabWidgetInfo.children, splitIndex), id) >>

\* A splitter that holds the new group before the group that was split.
Mutant_splitTabWidgetAtTabContentIntoSplitter(tabWidgetInfo, tabContent, orientation, id) ==
  NewSplitter(<<_splitTabWidgetAtTabContent(tabWidgetInfo, tabContent, id)[2],
                _splitTabWidgetAtTabContent(tabWidgetInfo, tabContent, id)[1]>>,
              orientation)

_splitTabWidgetAtTabContentIntoSplitter(tabWidgetInfo, tabContent, orientation, id) ==
  NewSplitter(_splitTabWidgetAtTabContent(tabWidgetInfo, tabContent, id), orientation)

splitAfterTabContent(root, counter, tabContent, orientation) ==
  LET hit == findPathToTabContent(root, tabContent)
      id == NextTabWidgetId(counter)
  IN  IF hit = NoHit THEN Outcome(root, counter, NULL, FALSE)
      ELSE IF hit.slot = 0 THEN
        \* the path ends at a tab-group: [tabwidget] or [..., splitter, tabwidget]
        splitAfterTabWidget(root, counter, NodeAt(root, hit.path).tabWidget, orientation)
      ELSE IF Len(hit.path) = 0 THEN
        \* [tabwidget, tabinfo]
        Outcome(_splitTabWidgetAtTabContentIntoSplitter(root, tabContent, orientation, id),
                id, id, FALSE)
      ELSE
        \* [..., splitter, tabwidget, tabinfo]
        LET splitterInfo == NodeAt(root, Front(hit.path))
            tabWidgetInfo == NodeAt(root, hit.path)
            tabWidgetIndex == Last(hit.path)
            pair == _splitTabWidgetAtTabContent(tabWidgetInfo, tabContent, id)
        IN  IF splitterInfo.orientation = orientation THEN
              Outcome(
                ReplaceAt(root, Front(hit.path),
                  [splitterInfo EXCEPT
                     !.children = InsertAt([@ EXCEPT ![tabWidgetIndex] = pair[1]],
                                           SiblingIndex(tabWidgetIndex), pair[2])]),
                id, id, FALSE)
            ELSE
              Outcome(
                ReplaceAt(root, hit.path,
                  _splitTabWidgetAtTabContentIntoSplitter(tabWidgetInfo, tabContent,
                                                          orientation, id)),
                id, id, FALSE)

\* The source keeps the slot that is moved.
MutantWithoutTabInfo(children, slot) == children

\* children with the slot at position `slot` taken out: filter(kid => kid !== tabInfo)
WithoutTabInfo(children, slot) == RemoveAt(children, slot)

\* The moved slot goes to the end of its group, whatever tabIndex is.
MutantMoveWithinTabWidget(children, slot, tabInfo, tabIndex) ==
  RemoveAt(children, slot) \o <<tabInfo>>

\* Source and target are the same group: the children are cut at tabIndex, the
\* moved slot is filtered out of both parts and put between them.  Positions
\* stand for the objects, so that kid !== tabInfo is decided by identity.
MoveWithinTabWidget(children, slot, tabInfo, tabIndex) ==
  LET positions == [k \in DOMAIN children |-> k]
      keep(ps) == SelectSeq(ps, LAMBDA k : k # slot)
      kids(ps) == [j \in DOMAIN ps |-> children[ps[j]]]
      frontList == kids(keep(Slice(positions, 0, tabIndex)))
      tailList == kids(keep(SliceFrom(positions, tabIndex)))
  IN  frontList \o <<tabInfo>> \o tailList

\* The parts of the target's children put back the other way round.
MutantMoveIntoTabWidget(children, tabInfo, tabIndex) ==
  SliceFrom(children, tabIndex) \o <<tabInfo>> \o Slice(children, 0, tabIndex)

\* Source and target differ: the target's children are cut at tabIndex and the
\* moved slot is put between the parts.
MoveIntoTabWidget(children, tabInfo, tabIndex) ==
  LET frontList == Slice(children, 0, tabIndex)
      tailList == SliceFrom(children, tabIndex)
  IN  frontList \o <<tabInfo>> \o tailList

moveTabToTabWidget(root, counter, tabElement, targetTabWidget, tabIndex0) ==
  LET source == findTabWidgetInfoByTab(root, tabElement)
      target == findTabWidgetInfoByTabWidget(root, targetTabWidget)
  IN  \* destructuring null, or reading the children of null, is a TypeError
      IF source = NoHit \/ target = NoPath THEN Outcome(root, counter, NULL, TRUE)
      ELSE
        LET sourceTabWidgetInfo == NodeAt(root, source.path)
            targetTabWidgetInfo == NodeAt(root, target)
            tabInfo == IF source.slot = 0 THEN NullTabInfo
                       ELSE sourceTabWidgetInfo.children[source.slot]
            tabIndex == Min({tabIndex0, Len(targetTabWidgetInfo.children)})
        IN  IF source.path = target THEN
              Outcome(
                ReplaceAt(root, target,
                  [sourceTabWidgetInfo EXCEPT
                     !.children = MoveWithinTabWidget(@, source.slot, tabInfo, tabIndex)]),
                counter, NULL, FALSE)
            ELSE
              Outcome(
                ReplaceAt(
                  ReplaceAt(root, source.path,
                    [sourceTabWidgetInfo EXCEPT
                       !.children = WithoutTabInfo(@, source.slot)]),
                  target,
                  [targetTabWidgetInfo EXCEPT
                     !.children = MoveIntoTabWidget(@, tabInfo, tabIndex)]),
                counter, NULL, FALSE)

\* _removeRedundantSplittersFromParent without the splice that lifts the only
\* child of a child splitter.
RECURSIVE Mutant_removeRedundantSplittersFromParent(_)
Mutant_removeRedundantSplittersFromParent(nodeInfo) ==
  IF nodeInfo.type = "splitter" THEN
    [nodeInfo EXCEPT !.children =
       [i \in DOMAIN nodeInfo.children |->
          Mutant_removeRedundantSplittersFromParent(nodeInfo.children[i])]]
  ELSE nodeInfo

\* The node object nodeInfo as _removeRedundantSplittersFromParent leaves it.
\* A child splitter with one child is replaced by that child; the recursive
\* call then still descends into the child that was lifted.
RECURSIVE _removeRedundantSplittersFromParent(_)
_removeRedundantSplittersFromParent(nodeInfo) ==
  IF nodeInfo.type = "splitter" THEN
    [nodeInfo EXCEPT !.children =
       [i \in DOMAIN nodeInfo.children |->
          LET kid == nodeInfo.children[i]
          IN  IF kid.type = "splitter" THEN
                IF Len(kid.children) = 1
                THEN _removeRedundantSplittersFromParent(kid.children[1])
                ELSE _removeRedundantSplittersFromParent(kid)
              ELSE kid]]
  ELSE nodeInfo

\* _removeRedundantSplitters without the test for a root with one child.
Mutant_removeRedundantSplitters(root) ==
  IF root.type = "splitter" THEN _removeRedundantSplittersFromParent(root) ELSE root

_removeRedundantSplitters(root) ==
  IF root.type = "splitter" THEN
    IF Len(root.children) = 1 THEN root.children[1]
    ELSE _removeRedundantSplittersFromParent(root)
  ELSE root

\* _closeTabWidgetSplitterSplit without the filter that drops the tab-group.
Mutant_closeTabWidgetSplitterSplit(parentSplitterInfo, tabWidgetAt, splitterAt) ==
  LET tabWidgetInfo == parentSplitterInfo.children[tabWidgetAt]
      splitterInfo == parentSplitterInfo.children[splitterAt]
      destination == firstTabWidgetInfo(splitterInfo)
      filled == ReplaceAt(splitterInfo, destination,
                  [NodeAt(splitterInfo, destination) EXCEPT
                     !.children = @ \o tabWidgetInfo.children])
  IN  [parentSplitterInfo EXCEPT !.children = [@ EXCEPT ![splitterAt] = filled]]

\* parentSplitterInfo after _closeTabWidgetSplitterSplit has moved the slots of
\* its child number tabWidgetAt into the first tab-group of its child number
\* splitterAt and has dropped the former.
_closeTabWidgetSplitterSplit(parentSplitterInfo, tabWidgetAt, splitterAt) ==
  LET tabWidgetInfo == parentSplitterInfo.children[tabWidgetAt]
      splitterInfo == parentSplitterInfo.children[splitterAt]
      destination == firstTabWidgetInfo(splitterInfo)
      filled == ReplaceAt(splitterInfo, destination,
                  [NodeAt(splitterInfo, destination) EXCEPT
                     !.children = @ \o tabWidgetInfo.children])
  IN  [parentSplitterInfo EXCEPT
         !.children = RemoveAt([@ EXCEPT ![splitterAt] = filled], tabWidgetAt)]

\* The position of the left one of the two children merged: the group's own,
\* or that of its left neighbour when the group is the last child.
MergeIndex(index, len) == IF index = len THEN len - 1 ELSE index

\* The merge with the slots of the right group put first.
MutantMergeTabWidgets(splitterInfo, index) ==
  LET leftInfo == splitterInfo.children[index]
      rightInfo == splitterInfo.children[index + 1]
  IN  [splitterInfo EXCEPT !.children =
         RemoveAt([@ EXCEPT ![index].children = rightInfo.children \o leftInfo.children],
                  index + 1)]

\* A merge that keeps the right group and drops the left one.
MutantMergeIntoRight(splitterInfo, index) ==
  LET leftInfo == splitterInfo.children[index]
      rightInfo == splitterInfo.children[index + 1]
  IN  [splitterInfo EXCEPT !.children =
         RemoveAt([@ EXCEPT ![index + 1].children = leftInfo.children \o rightInfo.children],
                  index)]

\* splitterInfo after its children number index and index + 1, two tab-groups,
\* have been merged into the left one.
MergeTabWidgets(splitterInfo, index) ==
  LET leftInfo == splitterInfo.children[index]
      rightInfo == splitterInfo.children[index + 1]
  IN  [splitterInfo EXCEPT !.children =
         RemoveAt([@ EXCEPT ![index].children = leftInfo.children \o rightInfo.children],
                  index + 1)]

closeSplitAtTabContent(root, counter, tabContent) ==
  LET hit == findPathToTabContent(root, tabContent)
  IN  IF hit = NoHit THEN Outcome(root, counter, NULL, FALSE)
      ELSE IF Len(hit.path) = 0 THEN
        \* path is [tabwidget]: nothing to do; path is [tabwidget, tabinfo]:
        \* splitterInfo is path[-1], undefined, and reading its children throws
        Outcome(root, counter, NULL, hit.slot # 0)
      ELSE
        LET splitterInfo == NodeAt(root, Front(hit.path))
            len == Len(splitterInfo.children)
            index == MergeIndex(Last(hit.path), len)
        IN  IF index < 1 THEN Outcome(root, counter, NULL, TRUE)
            ELSE
              LET leftInfo == splitterInfo.children[index]
                  rightInfo == splitterInfo.children[index + 1]
              IN  IF leftInfo.type = "tabwidget" /\ rightInfo.type = "tabwidget" THEN
                    Outcome(
                      _removeRedundantSplitters(
                        ReplaceAt(root, Front(hit.path),
                          MergeTabWidgets(splitterInfo, index))),
                      counter, NULL, FALSE)
                  ELSE IF leftInfo.type = "tabwidget" /\ rightInfo.type = "splitter" THEN
                    Outcome(
                      _removeRedundantSplitters(
                        ReplaceAt(root, Front(hit.path),
                          _closeTabWidgetSplitterSplit(splitterInfo, index, index + 1))),
                      counter, NULL, FALSE)
                  ELSE IF leftInfo.type = "splitter" /\ rightInfo.type = "tabwidget" THEN
                    Outcome(
                      _removeRedundantSplitters(
                        ReplaceAt(root, Front(hit.path),
                          _closeTabWidgetSplitterSplit(splitterInfo, index + 1, index))),
                      counter, NULL, FALSE)
                  ELSE Outcome(root, counter, NULL, FALSE)

-----------------------------------------------------------------------------
(* update(): the elements of the page.                                     *)
(*                                                                         *)
(* An element is told apart by the tag of what it is and a number.  The    *)
(* elements the caller owns carry the caller's numbers.  An element made   *)
(* during update() is made for one node and is named after it: after the   *)
(* tab widget of the group, or after the content of the slot, and after    *)
(* the element it replaces if there was one (so an element made anew is    *)
(* never the one it replaces).  The numbers of an empty tab, of an empty   *)
(* tab content and of their container are negative, so that no lookup by   *)
(* tab or by content takes one for the caller's.  Splitter widgets are     *)
(* numbered in the order they are made.                                    *)
(* `document` holds the children of every element that has been given      *)
(* some, every tab widget's showTabs and the number of splitter widgets    *)
(* made.                                                                   *)

\* RelativePosition
TOP_LEFT == "TOP_LEFT"

TOP_RIGHT == "TOP_RIGHT"

TOP_WIDE == "TOP_WIDE"

\* RelativePosition.OTHER (OTHER is a word of the language)
OTHER_ == "OTHER"

El(tag, id) == [tag |-> tag, id |-> id]

\* The page before anything has been made.
EmptyDocument == [splitters |-> 0, children |-> <<>>, showTabs |-> <<>>]

\* Names of the elements made one after the other for one node differ by this.
Stride == MaxTabWidgetId + NumContents + 1

\* document.createElement, or a factory of the caller that makes an element,
\* for the node named `owner` whose field held `previous`.
createElement(previous, owner) ==
  IF previous = NULL THEN owner
  ELSE IF previous > 0 THEN previous + Stride
  ELSE previous - Stride

\* element.children
ChildrenOf(doc, el) ==
  IF el \in DOMAIN doc.children THEN doc.children[el] ELSE <<>>

Without(list, els) == SelectSeq(list, LAMBDA x : x \notin els)

\* A setElementChildren that adds the list to the children el has.
Mutant_setElementChildren(doc, el, targetChildrenList) ==
  [doc EXCEPT !.children =
     [e \in DOMAIN doc.children \cup {el} |->
        IF e = el THEN ChildrenOf(doc, el) \o targetChildrenList
        ELSE doc.children[e]]]

\* DomUtils.setElementChildren: the children of el become targetChildrenList;
\* an element has one parent, so whatever is put under el leaves the children
\* of the element it was under.
setElementChildren(doc, el, targetChildrenList) ==
  [doc EXCEPT !.children =
     [e \in DOMAIN doc.children \cup {el} |->
        IF e = el THEN targetChildrenList
        ELSE Without(doc.children[e], Range(targetChildrenList))]]

\* Node.appendChild
appendChild(doc, el, child) ==
  setElementChildren(doc, el, Without(ChildrenOf(doc, el), {child}) \o <<child>>)

removeAllChildrenExceptOne(doc, container, chosenOne) ==
  [doc EXCEPT !.children =
     [e \in DOMAIN doc.children \cup {container} |->
        IF e = container THEN Without(ChildrenOf(doc, container),
                                      Range(ChildrenOf(doc, container)) \ {chosenOne})
        ELSE doc.children[e]]]

\* A classification in which every child of a top-wide vertical splitter but
\* the first is top right.
Mutant_computeNewPositionForVerticalSplits(oldPosition, index, length) ==
  CASE oldPosition = TOP_WIDE ->
         IF length = 1 THEN TOP_WIDE
         ELSE IF index = 0 THEN TOP_LEFT
         ELSE TOP_RIGHT
    [] oldPosition = TOP_LEFT -> IF index = 0 THEN TOP_LEFT ELSE OTHER_
    [] oldPosition = TOP_RIGHT -> IF index = length - 1 THEN TOP_RIGHT ELSE OTHER_
    [] OTHER -> OTHER_

_computeNewPositionForVerticalSplits(oldPosition, index, length) ==
  CASE oldPosition = TOP_WIDE ->
         IF length = 1 THEN TOP_WIDE
         ELSE IF index = 0 THEN TOP_LEFT
         ELSE IF index = length - 1 THEN TOP_RIGHT
         ELSE OTHER_
    [] oldPosition = TOP_LEFT -> IF index = 0 THEN TOP_LEFT ELSE OTHER_
    [] oldPosition = TOP_RIGHT -> IF index = length - 1 THEN TOP_RIGHT ELSE OTHER_
    [] OTHER -> OTHER_

\* A classification in which the last child of a horizontal splitter keeps the
\* right qualification, as under a vertical one.
Mutant_computeNewPositionForHorizontalSplits(oldPosition, index, length) ==
  CASE oldPosition = TOP_WIDE ->
         IF length = 1 THEN TOP_WIDE
         ELSE IF index = 0 THEN TOP_LEFT
         ELSE IF index = length - 1 THEN TOP_RIGHT
         ELSE OTHER_
    [] oldPosition = TOP_LEFT -> IF index = 0 THEN TOP_LEFT ELSE OTHER_
    [] oldPosition = TOP_RIGHT -> IF index = length - 1 THEN TOP_RIGHT ELSE OTHER_
    [] OTHER -> OTHER_

_computeNewPositionForHorizontalSplits(oldPosition, index, length) ==
  CASE oldPosition = TOP_WIDE ->
         IF length = 1 THEN TOP_WIDE
         ELSE IF index = 0 THEN TOP_WIDE
         ELSE OTHER_
    [] oldPosition = TOP_LEFT -> IF index = 0 THEN TOP_LEFT ELSE OTHER_
    [] oldPosition = TOP_RIGHT -> IF index = 0 THEN TOP_RIGHT ELSE OTHER_
    [] OTHER -> OTHER_

\* The two kinds of factory a caller can hand to setEmptySplitElementFactory:
\* one that refreshes the element it is given and returns it, and one that
\* makes a new element at every call.  Both make an element when given null.
UPDATING == 1

CREATING == 2

\* The value of body for x, x being computed once.
With(x, body(_)) == CHOOSE r \in {body(v) : v \in {x}} : TRUE

\* _divTabContainerFactory, the tab container factory of the constructor,
\* called for a slot whose container field holds null.
_divTabContainerFactory(kidInfo) == createElement(kidInfo.container, kidInfo.content)

\* Lines 789-792 for one slot: the slot with its container and the page.
UpdateTabInfo(kidInfo, doc) ==
  IF kidInfo.container # NULL THEN [kid |-> kidInfo, document |-> doc]
  ELSE With(_divTabContainerFactory(kidInfo), LAMBDA container :
         [kid |-> [kidInfo EXCEPT !.container = container],
          document |-> appendChild(doc, El("container", container),
                                   El("content", kidInfo.content))])

\* The loop of lines 786-794 over the slots of a group: the slots with their
\* containers, the tabs and containers to show, and the page afterwards.
RECURSIVE UpdateTabInfos(_, _)
UpdateTabInfos(children, doc) ==
  IF children = <<>> THEN [children |-> <<>>, list |-> <<>>, document |-> doc]
  ELSE
    With(UpdateTabInfo(Head(children), doc), LAMBDA first :
    With(UpdateTabInfos(Tail(children), first.document), LAMBDA rest :
      [children |-> <<first.kid>> \o rest.children,
       list |-> <<El("tab", first.kid.tab), El("container", first.kid.container)>>
                \o rest.list,
       document |-> rest.document]))

\* Lines 796-799: the empty tab of a group without slots.
UpdateEmptyTab(infoNode, world) ==
  IF infoNode.emptyTab # NULL THEN [node |-> infoNode, world |-> world]
  ELSE [node |-> [infoNode EXCEPT !.emptyTab = createElement(NULL, -infoNode.tabWidget)],
        world |-> [world EXCEPT !.tabIdCounter = @ + 1]]

\* Lines 801-807: the empty tab content of a group without slots, and the
\* container made with the first one.
UpdateEmptyTabContent(infoNode, layout, world) ==
  IF infoNode.emptyTabContent = NULL
  THEN With([infoNode EXCEPT
               !.emptyTabContent = createElement(NULL, -infoNode.tabWidget),
               !.emptyContainer = createElement(@, -infoNode.tabWidget)],
            LAMBDA node :
         [node |-> node,
          world |-> [world EXCEPT
                       !.document = appendChild(@, El("container", node.emptyContainer),
                                                El("content", node.emptyTabContent))]])
  ELSE IF layout.emptySplitFactory = CREATING
  THEN [node |-> [infoNode EXCEPT !.emptyTabContent = createElement(@, -infoNode.tabWidget)],
        world |-> world]
  ELSE [node |-> infoNode, world |-> world]

\* Lines 785-811: the tabs and containers to show in a tab widget.
UpdateTabs(infoNode, layout, world) ==
  IF Len(infoNode.children) # 0
  THEN With(UpdateTabInfos(infoNode.children, world.document), LAMBDA slots :
         [node |-> [infoNode EXCEPT !.children = slots.children],
          list |-> slots.list,
          world |-> [world EXCEPT !.document = slots.document]])
  ELSE IF layout.emptySplitFactory # NULL
  THEN With(UpdateEmptyTab(infoNode, world), LAMBDA tab :
       With(UpdateEmptyTabContent(tab.node, layout, tab.world), LAMBDA content :
         [node |-> content.node,
          list |-> <<El("tab", content.node.emptyTab),
                     El("container", content.node.emptyContainer)>>,
          world |-> content.world]))
  ELSE [node |-> infoNode, list |-> <<>>, world |-> world]

\* A left side on which the default element of the group, once made, comes
\* before the top left element.
MutantLeftSpace(infoNode, position, layout) ==
  IF infoNode.leftSpaceDefaultElement # NULL
  THEN [node |-> infoNode,
        element |-> <<El("leftSpace", infoNode.leftSpaceDefaultElement)>>]
  ELSE IF position \in {TOP_LEFT, TOP_WIDE} /\ layout.topLeftElement # NULL
  THEN [node |-> infoNode, element |-> <<El("top", layout.topLeftElement)>>]
  ELSE IF layout.leftSpaceDefaultElementFactory # NULL
  THEN With(createElement(NULL, infoNode.tabWidget), LAMBDA el :
         [node |-> [infoNode EXCEPT !.leftSpaceDefaultElement = el],
          element |-> <<El("leftSpace", el)>>])
  ELSE [node |-> infoNode, element |-> <<>>]

\* Lines 757-766: the thing to place on the left side.
LeftSpace(infoNode, position, layout) ==
  IF position \in {TOP_LEFT, TOP_WIDE} /\ layout.topLeftElement # NULL
  THEN [node |-> infoNode, element |-> <<El("top", layout.topLeftElement)>>]
  ELSE IF /\ layout.leftSpaceDefaultElementFactory # NULL
          /\ infoNode.leftSpaceDefaultElement = NULL
  THEN With(createElement(NULL, infoNode.tabWidget), LAMBDA el :
         [node |-> [infoNode EXCEPT !.leftSpaceDefaultElement = el],
          element |-> <<El("leftSpace", el)>>])
  ELSE [node |-> infoNode,
        element |-> IF infoNode.leftSpaceDefaultElement = NULL THEN <<>>
                    ELSE <<El("leftSpace", infoNode.leftSpaceDefaultElement)>>]

\* Lines 768-777: the thing to place on the right side.
RightSpace(infoNode, position, layout) ==
  IF position \in {TOP_RIGHT, TOP_WIDE} /\ layout.topRightElement # NULL
  THEN [node |-> infoNode, element |-> <<El("top", layout.topRightElement)>>]
  ELSE IF /\ layout.rightSpaceDefaultElementFactory # NULL
          /\ infoNode.rightSpaceDefaultElement = NULL
  THEN With(createElement(NULL, infoNode.tabWidget), LAMBDA el :
         [node |-> [infoNode EXCEPT !.rightSpaceDefaultElement = el],
          element |-> <<El("rightSpace", el)>>])
  ELSE [node |-> infoNode,
        element |-> IF infoNode.rightSpaceDefaultElement = NULL THEN <<>>
                    ELSE <<El("rightSpace", infoNode.rightSpaceDefaultElement)>>]

\* tabWidget.showTabs = show
setShowTabs(doc, tabWidget, show) ==
  [doc EXCEPT !.showTabs = [w \in DOMAIN doc.showTabs \cup {tabWidget} |->
                              IF w = tabWidget THEN show ELSE doc.showTabs[w]]]

\* An _updateTabWidget that lists the right space element before the tabs.
Mutant_updateTabWidget(infoNode, position, layout, world) ==
  With(LeftSpace(infoNode, position, layout), LAMBDA left :
  With(RightSpace(left.node, position, layout), LAMBDA right :
  With(UpdateTabs(right.node, layout, world), LAMBDA tabs :
    [node |-> tabs.node,
     world |-> [tabs.world EXCEPT
                  !.document =
                     setShowTabs(
                       setElementChildren(@, El("tabwidget", infoNode.tabWidget),
                                          left.element \o right.element \o tabs.list),
                       infoNode.tabWidget, Len(infoNode.children) # 0)]])))

_updateTabWidget(infoNode, position, layout, world) ==
  With(LeftSpace(infoNode, position, layout), LAMBDA left :
  With(RightSpace(left.node, position, layout), LAMBDA right :
  With(UpdateTabs(right.node, layout, world), LAMBDA tabs :
    [node |-> tabs.node,
     world |-> [tabs.world EXCEPT
                  !.document =
                     setShowTabs(
                       setElementChildren(@, El("tabwidget", infoNode.tabWidget),
                                          left.element \o tabs.list \o right.element),
                       infoNode.tabWidget, Len(infoNode.children) # 0)]])))

\* The element a child of a splitter is shown by.
WidgetOf(infoNode) ==
  IF infoNode.type = "splitter" THEN El("splitter", infoNode.splitter)
  ELSE El("tabwidget", infoNode.tabWidget)

\* A splitter widget made at every update.
MutantUpdateSplitterWidget(infoNode, world) ==
  [node |-> [infoNode EXCEPT !.splitter = world.document.splitters + 1],
   world |-> [world EXCEPT !.document.splitters = @ + 1]]

\* Lines 671-674: the splitter widget of a splitter, made once.
UpdateSplitterWidget(infoNode, world) ==
  IF infoNode.splitter # NULL THEN [node |-> infoNode, world |-> world]
  ELSE [node |-> [infoNode EXCEPT !.splitter = world.document.splitters + 1],
        world |-> [world EXCEPT !.document.splitters = @ + 1]]

RECURSIVE _updateSplitter(_, _, _, _)
RECURSIVE UpdateSplitterChildren(_, _, _, _, _, _)

\* The loop of lines 678-692 from the child number i (counted from 0) on;
\* children holds the children of the splitter from that one on.
UpdateSplitterChildren(children, i, infoNode, position, layout, world) ==
  IF children = <<>> THEN [children |-> <<>>, world |-> world]
  ELSE
    With(IF infoNode.orientation = VERTICAL
         THEN _computeNewPositionForVerticalSplits(position, i, Len(infoNode.children))
         ELSE _computeNewPositionForHorizontalSplits(position, i, Len(infoNode.children)),
         LAMBDA newPosition :
    With(IF Head(children).type = "splitter"
         THEN _updateSplitter(Head(children), newPosition, layout, world)
         ELSE _updateTabWidget(Head(children), newPosition, layout, world),
         LAMBDA kid :
    With(UpdateSplitterChildren(Tail(children), i + 1, infoNode, position, layout,
                                kid.world),
         LAMBDA rest :
      [children |-> <<kid.node>> \o rest.children, world |-> rest.world])))

_updateSplitter(infoNode, position, layout, world) ==
  With(UpdateSplitterWidget(infoNode, world), LAMBDA made :
  With(UpdateSplitterChildren(made.node.children, 0, made.node, position, layout,
                              made.world),
       LAMBDA kids :
    [node |-> [made.node EXCEPT !.children = kids.children],
     world |-> [kids.world EXCEPT
                  !.document =
                     setElementChildren(@, El("splitter", made.node.splitter),
                       [k \in DOMAIN kids.children |-> WidgetOf(kids.children[k])])]]))

\* The elements the nodes of the tree refer to as their own: widgets,
\* containers of slots and empty containers.
RECURSIVE ElementsOf(_)
ElementsOf(infoNode) ==
  IF infoNode.type = "splitter"
  THEN (IF infoNode.splitter = NULL THEN {} ELSE {El("splitter", infoNode.splitter)})
       \cup UNION {ElementsOf(infoNode.children[i]) : i \in DOMAIN infoNode.children}
  ELSE {El("tabwidget", infoNode.tabWidget)}
       \cup (IF infoNode.emptyContainer = NULL THEN {}
             ELSE {El("container", infoNode.emptyContainer)})
       \cup {El("container", infoNode.children[k].container) :
               k \in {j \in DOMAIN infoNode.children : infoNode.children[j].container # NULL}}

\* The page without the children and the showTabs of the elements that no node
\* of the tree refers to any more: nothing reaches those through the layout.
Reachable(doc, root, container) ==
  [doc EXCEPT
     !.children = [e \in DOMAIN doc.children \cap (ElementsOf(root) \cup {container}) |->
                     doc.children[e]],
     !.showTabs = [w \in DOMAIN doc.showTabs \cap Range(getAllTabWidgets(root)) |->
                     doc.showTabs[w]]]

\* Lines 652-656 and 661-665: the root container keeps or gets the widget.
Show(doc, container, widget) ==
  With(removeAllChildrenExceptOne(doc, container, widget), LAMBDA kept :
    IF Len(ChildrenOf(kept, container)) = 0 THEN appendChild(kept, container, widget)
    ELSE kept)

\* _update(this._rootContainer, this._rootInfoNode, TOP_WIDE).  Without a root
\* container the nodes are updated and then reading container.children is a
\* TypeError.
update(root, layout, world) ==
  With(IF root.type = "splitter"
       THEN _updateSplitter(root, TOP_WIDE, layout, world)
       ELSE _updateTabWidget(root, TOP_WIDE, layout, world),
       LAMBDA done :
    [root |-> done.node,
     world |-> [done.world EXCEPT
                  !.document =
                     Reachable(IF layout.rootContainer = NULL THEN @
                               ELSE Show(@, El("root", layout.rootContainer),
                                         WidgetOf(done.node)),
                               done.node, El("root", layout.rootContainer))],
     thrown |-> layout.rootContainer = NULL])

-----------------------------------------------------------------------------
(* Runs of calls.  A property that speaks of what two or three calls in a  *)
(* row do together needs the tree as it was before the first of them:      *)
(* `session` keeps it while the calls made are the beginning of one of     *)
(* the runs below.  A query is a run of one call; its session keeps the    *)
(* tab widget, tab or content asked about.                                 *)

Sessions ==
  { <<"splitAfterTabWidget", "update", "closeSplitAtTabContent">>,
    <<"appendTab", "removeTabContent">>,
    <<"update", "update">>,
    <<"getTabWidgetToLeft">>, <<"getTabWidgetToRight">>,
    <<"getTabWidgetAbove">>, <<"getTabWidgetBelow">>,
    <<"getTabContentsByTabWidget">>, <<"getTabByTabContent">>,
    <<"getTabWidgetByTabContent">>, <<"getTabContentByTab">>,
    <<"getEmptyContentByTabWidget">> }

NoSession == [calls |-> <<>>, root |-> NULL, subject |-> NULL]

IsPrefix(s, t) == Len(s) <= Len(t) /\ SubSeq(t, 1, Len(s)) = s

\* The session after a call `name` made on the tree `root`: the one in progress
\* goes on if `continues` holds and the call is the next of its run; otherwise
\* the call opens a session of its own, about `subject`, or there is none.
NextSession(current, name, root, subject, continues) ==
  IF /\ current.calls # <<>>
     /\ continues
     /\ \E run \in Sessions : IsPrefix(Append(current.calls, name), run)
  THEN [current EXCEPT !.calls = Append(@, name)]
  ELSE IF \E run \in Sessions : IsPrefix(<<name>>, run)
  THEN [calls |-> <<name>>, root |-> root, subject |-> subject]
  ELSE NoSession

-----------------------------------------------------------------------------
(* Nothing has been laid out before the page is shown.                     *)

NoGeometry == [bounds |-> <<>>, dividerSize |-> 0, paneSizes |-> <<>>]

-----------------------------------------------------------------------------
(* The state machine: a caller making one call after another on a          *)
(* SplitLayout it has just constructed.                                    *)

Init ==
  /\ rootInfoNode = CreateTabWidgetInfo(<<>>, 1)
  /\ tabWidgetIdCounter = 1
  /\ call = "constructor"
  /\ pre = CreateTabWidgetInfo(<<>>, 1)
  /\ preCounter = 1
  /\ result = NULL
  /\ thrown = FALSE
  /\ rootContainer = NULL
  /\ emptySplitFactory = NULL
  /\ topLeftElement = NULL
  /\ topRightElement = NULL
  /\ leftSpaceDefaultElementFactory = NULL
  /\ rightSpaceDefaultElementFactory = NULL
  /\ tabIdCounter = 0
  /\ document = EmptyDocument
  /\ preDocument = EmptyDocument
  /\ session = NoSession
  /\ geometry = NoGeometry
  /\ windowId = NULL
  /\ tabWidgetWindowId = <<NULL>>

\* Tab widgets made without a windowId.
MutantWindowIdsOfCreated(windowIds, counter, layoutWindowId) ==
  windowIds \o [id \in 1..(counter - Len(windowIds)) |-> NULL]

\* The windowId of every tab widget made so far, once the tab widgets numbered
\* up to `counter` have been made: _createTabWidgetInfo gives each new one the
\* layout's windowId.
WindowIdsOfCreated(windowIds, counter, layoutWindowId) ==
  windowIds \o [id \in 1..(counter - Len(windowIds)) |-> layoutWindowId]

\* What a call leaves in the layout and what it hands back.
Returned(c, out) ==
  /\ call' = c
  /\ pre' = rootInfoNode
  /\ preCounter' = tabWidgetIdCounter
  /\ rootInfoNode' = out.root
  /\ tabWidgetIdCounter' = out.counter
  /\ result' = out.result
  /\ thrown' = out.thrown

\* A call of a method that touches neither the configuration nor the page.
\* It is about `subject`, and it goes on with the session in progress if
\* `continues` holds.
Change(c, out, subject, continues) ==
  /\ Returned(c, out)
  /\ preDocument' = document
  /\ session' = NextSession(session, c, rootInfoNode, subject, continues)
  /\ tabWidgetWindowId' = WindowIdsOfCreated(tabWidgetWindowId, out.counter, windowId)
  /\ UNCHANGED <<configVars, tabIdCounter, document, geometry, windowId>>

Return(c, out) == Change(c, out, NULL, FALSE)

\* The content an appendTab to the group of tabWidget may be followed up for:
\* the one appended, if the group is in the tree and the tree does not hold
\* that content yet.
Appended(tabWidget, tabContent) ==
  IF /\ InTree(rootInfoNode, tabWidget)
     /\ tabContent \notin Range(getAllTabContents(rootInfoNode))
  THEN tabContent ELSE NULL

AppendTab ==
  /\ NumSlots(rootInfoNode) < MaxSlots
  /\ tabWidgetIdCounter + NumSlots(rootInfoNode) < MaxNodes
  /\ \E w \in TabWidgets(rootInfoNode), c \in Contents :
       Change("appendTab",
              appendTab(rootInfoNode, tabWidgetIdCounter, w, TabOf(c), c),
              Appended(w, c), FALSE)

RemoveTabContent ==
  \E c \in Contents :
    Change("removeTabContent",
           removeTabContent(rootInfoNode, tabWidgetIdCounter, c), NULL,
           session.subject = c)

SplitAfterTabWidget ==
  /\ tabWidgetIdCounter < MaxTabWidgetId
  /\ tabWidgetIdCounter + NumSlots(rootInfoNode) < MaxNodes
  /\ \E w \in TabWidgets(rootInfoNode), o \in SplitOrientation :
       Return("splitAfterTabWidget",
              splitAfterTabWidget(rootInfoNode, tabWidgetIdCounter, w, o))

SplitBeforeTabWidget ==
  /\ tabWidgetIdCounter < MaxTabWidgetId
  /\ tabWidgetIdCounter + NumSlots(rootInfoNode) < MaxNodes
  /\ \E w \in TabWidgets(rootInfoNode), o \in SplitOrientation :
       Return("splitBeforeTabWidget",
              splitBeforeTabWidget(rootInfoNode, tabWidgetIdCounter, w, o))

SplitAfterTabContent ==
  /\ tabWidgetIdCounter < MaxTabWidgetId
  /\ tabWidgetIdCounter + NumSlots(rootInfoNode) < MaxNodes
  /\ \E c \in Contents, o \in SplitOrientation :
       Return("splitAfterTabContent",
              splitAfterTabContent(rootInfoNode, tabWidgetIdCounter, c, o))

MoveTabToTabWidget ==
  \E t \in Tabs, w \in TabWidgets(rootInfoNode), i \in TabIndexes :
    Return("moveTabToTabWidget",
           moveTabToTabWidget(rootInfoNode, tabWidgetIdCounter, t, w, i))

CloseSplitAtTabContent ==
  \E c \in Contents :
    Return("closeSplitAtTabContent",
           closeSplitAtTabContent(rootInfoNode, tabWidgetIdCounter, c))

Next ==
  \/ AppendTab
  \/ RemoveTabContent
  \/ SplitAfterTabWidget
  \/ SplitBeforeTabWidget
  \/ SplitAfterTabContent
  \/ MoveTabToTabWidget
  \/ CloseSplitAtTabContent

Spec == Init /\ [][Next]_vars

-----------------------------------------------------------------------------
(* A second caller: one that configures the layout it has constructed,     *)
(* then changes it and shows it on the page with update().  This caller    *)
(* keeps the tab contents unique: it appends no content the tree holds.    *)
(* It hands over the root container before anything else, it puts nothing *)
(* of its own on the right of the tab widgets, and it splits at tab        *)
(* widgets only.                                                           *)

\* No split is attempted by this caller once tabWidgetIdCounter has reached
\* this value.
MaxShownTabWidgetId == 3

\* update() is not called once this many splitter widgets have been made.
MaxSplitterWidgets == 2

\* Nor once a factory has replaced the empty tab content of a group this many
\* times.
MaxReplaced == 1

\* The contents this caller has to show are 1..NumShownContents.
NumShownContents == 1

\* The caller's top left element.
TheTopLeftElement == 1

\* The root container the caller hands over.
TheRootContainer == 1

\* The fields of the SplitLayout that update() reads.
Layout ==
  [rootContainer |-> rootContainer,
   emptySplitFactory |-> emptySplitFactory,
   topLeftElement |-> topLeftElement,
   topRightElement |-> topRightElement,
   leftSpaceDefaultElementFactory |-> leftSpaceDefaultElementFactory,
   rightSpaceDefaultElementFactory |-> rightSpaceDefaultElementFactory]

World == [document |-> document, tabIdCounter |-> tabIdCounter]

\* The empty tab contents of the groups of the tree.
RECURSIVE EmptyTabContents(_)
EmptyTabContents(infoNode) ==
  IF infoNode.type = "splitter"
  THEN UNION {EmptyTabContents(infoNode.children[i]) : i \in DOMAIN infoNode.children}
  ELSE {infoNode.emptyTabContent} \ {NULL}

\* The caller is still configuring: it has made no other call than setters.
Configuring ==
  call \in {"constructor", "setRootContainer", "setEmptySplitElementFactory",
            "setTopLeftElement", "setLeftSpaceDefaultElementFactory"}

\* What a setter leaves alone.
Set(c) ==
  /\ Configuring
  /\ Returned(c, Outcome(rootInfoNode, tabWidgetIdCounter, NULL, FALSE))
  /\ preDocument' = document
  /\ session' = NoSession
  /\ UNCHANGED <<tabIdCounter, document, geometry, windowId, tabWidgetWindowId>>

SetRootContainer ==
  /\ call = "constructor"
  /\ Set("setRootContainer")
  /\ rootContainer' = TheRootContainer
  /\ UNCHANGED <<emptySplitFactory, topLeftElement, topRightElement,
                 leftSpaceDefaultElementFactory, rightSpaceDefaultElementFactory>>

SetEmptySplitElementFactory ==
  /\ rootContainer # NULL
  /\ emptySplitFactory = NULL
  /\ Set("setEmptySplitElementFactory")
  /\ emptySplitFactory' \in {UPDATING, CREATING}
  /\ UNCHANGED <<rootContainer, topLeftElement, topRightElement,
                 leftSpaceDefaultElementFactory, rightSpaceDefaultElementFactory>>

SetTopLeftElement ==
  /\ rootContainer # NULL
  /\ topLeftElement = NULL
  /\ Set("setTopLeftElement")
  /\ topLeftElement' = TheTopLeftElement
  /\ UNCHANGED <<rootContainer, emptySplitFactory, topRightElement,
                 leftSpaceDefaultElementFactory, rightSpaceDefaultElementFactory>>

SetLeftSpaceDefaultElementFactory ==
  /\ rootContainer # NULL
  /\ leftSpaceDefaultElementFactory = NULL
  /\ Set("setLeftSpaceDefaultElementFactory")
  /\ leftSpaceDefaultElementFactory' = CREATING
  /\ UNCHANGED <<rootContainer, emptySplitFactory, topLeftElement, topRightElement,
                 rightSpaceDefaultElementFactory>>

Update ==
  /\ rootContainer # NULL
  /\ document.splitters < MaxSplitterWidgets
  /\ \A c \in EmptyTabContents(rootInfoNode) : -c < Stride * MaxReplaced
  /\ \E out \in {update(rootInfoNode, Layout, World)} :
       /\ Returned("update", Outcome(out.root, tabWidgetIdCounter, NULL, out.thrown))
       /\ document' = out.world.document
       /\ tabIdCounter' = out.world.tabIdCounter
  /\ preDocument' = document
  /\ session' = NextSession(session, "update", NULL, NULL, TRUE)
  /\ UNCHANGED <<configVars, geometry, windowId, tabWidgetWindowId>>

ShownAppendTab ==
  /\ rootContainer # NULL
  /\ \E w \in Range(getAllTabWidgets(rootInfoNode)), c \in 1..NumShownContents :
       /\ c \notin Range(getAllTabContents(rootInfoNode))
       /\ Change("appendTab",
                 appendTab(rootInfoNode, tabWidgetIdCounter, w, TabOf(c), c), c, FALSE)

ShownRemoveTabContent ==
  /\ rootContainer # NULL
  /\ \E c \in Contents :
       Change("removeTabContent",
              removeTabContent(rootInfoNode, tabWidgetIdCounter, c), NULL,
              session.subject = c)

ShownSplitAfterTabWidget ==
  /\ rootContainer # NULL
  /\ tabWidgetIdCounter < MaxShownTabWidgetId
  /\ \E w \in Range(getAllTabWidgets(rootInfoNode)), o \in SplitOrientation :
       LET out == splitAfterTabWidget(rootInfoNode, tabWidgetIdCounter, w, o)
       IN  Change("splitAfterTabWidget", out, out.result, FALSE)

\* The session of a split goes on if the content named is the empty tab
\* content of the group the split has made.
ShownCloseSplitAtTabContent ==
  /\ rootContainer # NULL
  /\ \E c \in Contents \cup EmptyTabContents(rootInfoNode) :
       Change("closeSplitAtTabContent",
              closeSplitAtTabContent(rootInfoNode, tabWidgetIdCounter, c), NULL,
              /\ session.calls = <<"splitAfterTabWidget", "update">>
              /\ InTree(rootInfoNode, session.subject)
              /\ NodeAt(rootInfoNode,
                        findPathToTabWidget(rootInfoNode,
                                            session.subject)).emptyTabContent = c)

\* The caller moves a tab the tree holds, to the front of a group of the tree.
ShownMoveTabToTabWidget ==
  /\ rootContainer # NULL
  /\ \E c \in Range(getAllTabContents(rootInfoNode)),
        w \in Range(getAllTabWidgets(rootInfoNode)) :
       Change("moveTabToTabWidget",
              moveTabToTabWidget(rootInfoNode, tabWidgetIdCounter, TabOf(c), w, 0),
              NULL, FALSE)

NextUpdate ==
  \/ SetRootContainer
  \/ SetEmptySplitElementFactory
  \/ SetTopLeftElement
  \/ SetLeftSpaceDefaultElementFactory
  \/ Update
  \/ ShownAppendTab
  \/ ShownRemoveTabContent
  \/ ShownSplitAfterTabWidget
  \/ ShownCloseSplitAtTabContent
  \/ ShownMoveTabToTabWidget

SpecUpdate == Init /\ [][NextUpdate]_vars

-----------------------------------------------------------------------------
(* A caller that configures nothing but the root container and shows up    *)
(* to NumPlainContents contents at a time.                                 *)

NumPlainContents == 2

PlainAppendTab ==
  /\ rootContainer # NULL
  /\ \E w \in Range(getAllTabWidgets(rootInfoNode)), c \in 1..NumPlainContents :
       /\ c \notin Range(getAllTabContents(rootInfoNode))
       /\ Change("appendTab",
                 appendTab(rootInfoNode, tabWidgetIdCounter, w, TabOf(c), c), c, FALSE)

NextPlain ==
  \/ SetRootContainer
  \/ Update
  \/ PlainAppendTab
  \/ ShownRemoveTabContent
  \/ ShownSplitAfterTabWidget
  \/ ShownCloseSplitAtTabContent
  \/ ShownMoveTabToTabWidget

SpecPlain == Init /\ [][NextPlain]_vars

-----------------------------------------------------------------------------
(* A caller that has configured the layout in one of the ways it can be    *)
(* configured, builds it by splits and appends, then shows it and keeps    *)
(* refreshing the page, closing a split now and then.                      *)

\* This caller splits no further once tabWidgetIdCounter has reached this value.
MaxPageTabWidgetId == 3

\* It shows the contents 1..NumPageContents.
NumPageContents == 2

\* It replaces an empty tab content this many times at most.
MaxPageReplaced == 1

\* The caller's top right element.
TheTopRightElement == 2

InitPage ==
  /\ rootInfoNode = CreateTabWidgetInfo(<<>>, 1)
  /\ tabWidgetIdCounter = 1
  /\ call = "setRootContainer"
  /\ pre = CreateTabWidgetInfo(<<>>, 1)
  /\ preCounter = 1
  /\ result = NULL
  /\ thrown = FALSE
  /\ rootContainer = TheRootContainer
  /\ emptySplitFactory \in {NULL, UPDATING, CREATING}
  /\ topLeftElement \in {NULL, TheTopLeftElement}
  /\ topRightElement \in {NULL, TheTopRightElement}
  /\ leftSpaceDefaultElementFactory \in {NULL, CREATING}
  /\ rightSpaceDefaultElementFactory \in {NULL, CREATING}
  /\ tabIdCounter = 0
  /\ document = EmptyDocument
  /\ preDocument = EmptyDocument
  /\ session = NoSession
  /\ geometry = NoGeometry
  /\ windowId = NULL
  /\ tabWidgetWindowId = <<NULL>>

\* The caller is still building the layout.
Building == call \in {"setRootContainer", "splitAfterTabWidget", "appendTab"}

PageSplitAfterTabWidget ==
  /\ Building
  /\ tabWidgetIdCounter < MaxPageTabWidgetId
  /\ \E w \in Range(getAllTabWidgets(rootInfoNode)), o \in SplitOrientation :
       Return("splitAfterTabWidget",
              splitAfterTabWidget(rootInfoNode, tabWidgetIdCounter, w, o))

PageAppendTab ==
  /\ Building
  /\ \E w \in Range(getAllTabWidgets(rootInfoNode)), c \in 1..NumPageContents :
       /\ c \notin Range(getAllTabContents(rootInfoNode))
       /\ Return("appendTab",
                 appendTab(rootInfoNode, tabWidgetIdCounter, w, TabOf(c), c))

PageUpdate ==
  /\ \A c \in EmptyTabContents(rootInfoNode) : -c < Stride * MaxPageReplaced
  /\ \E out \in {update(rootInfoNode, Layout, World)} :
       /\ Returned("update", Outcome(out.root, tabWidgetIdCounter, NULL, out.thrown))
       /\ document' = out.world.document
       /\ tabIdCounter' = out.world.tabIdCounter
  /\ preDocument' = document
  /\ session' = NextSession(session, "update", NULL, NULL, TRUE)
  /\ UNCHANGED <<configVars, geometry, windowId, tabWidgetWindowId>>

PageCloseSplitAtTabContent ==
  /\ call = "update"
  /\ \E c \in (1..NumPageContents) \cup EmptyTabContents(rootInfoNode) :
       Return("closeSplitAtTabContent",
              closeSplitAtTabContent(rootInfoNode, tabWidgetIdCounter, c))

NextPage ==
  \/ PageSplitAfterTabWidget
  \/ PageAppendTab
  \/ PageUpdate
  \/ PageCloseSplitAtTabContent

SpecPage == InitPage /\ [][NextPage]_vars

-----------------------------------------------------------------------------
(* A caller with more contents than groups, which never appends a content  *)
(* the tree holds already.                                                 *)

\* This caller splits no further once tabWidgetIdCounter has reached this value.
MaxOrderTabWidgetId == 2

\* It owns the contents 1..NumOrderContents.
NumOrderContents == 3

OrderContents == 1..NumOrderContents

OrderAppendTab ==
  \E w \in Range(getAllTabWidgets(rootInfoNode)), c \in OrderContents :
    /\ c \notin Range(getAllTabContents(rootInfoNode))
    /\ Return("appendTab", appendTab(rootInfoNode, tabWidgetIdCounter, w, TabOf(c), c))

OrderRemoveTabContent ==
  \E c \in OrderContents :
    Return("removeTabContent", removeTabContent(rootInfoNode, tabWidgetIdCounter, c))

OrderSplitAfterTabWidget ==
  /\ tabWidgetIdCounter < MaxOrderTabWidgetId
  /\ \E w \in Range(getAllTabWidgets(rootInfoNode)), o \in SplitOrientation :
       Return("splitAfterTabWidget",
              splitAfterTabWidget(rootInfoNode, tabWidgetIdCounter, w, o))

OrderSplitBeforeTabWidget ==
  /\ tabWidgetIdCounter < MaxOrderTabWidgetId
  /\ \E w \in Range(getAllTabWidgets(rootInfoNode)), o \in SplitOrientation :
       Return("splitBeforeTabWidget",
              splitBeforeTabWidget(rootInfoNode, tabWidgetIdCounter, w, o))

OrderSplitAfterTabContent ==
  /\ tabWidgetIdCounter < MaxOrderTabWidgetId
  /\ \E c \in OrderContents, o \in SplitOrientation :
       Return("splitAfterTabContent",
              splitAfterTabContent(rootInfoNode, tabWidgetIdCounter, c, o))

OrderMoveTabToTabWidget ==
  \E c \in OrderContents, w \in Range(getAllTabWidgets(rootInfoNode)), i \in TabIndexes :
    Return("moveTabToTabWidget",
           moveTabToTabWidget(rootInfoNode, tabWidgetIdCounter, TabOf(c), w, i))

OrderCloseSplitAtTabContent ==
  \E c \in OrderContents :
    Return("closeSplitAtTabContent",
           closeSplitAtTabContent(rootInfoNode, tabWidgetIdCounter, c))

NextOrder ==
  \/ OrderAppendTab
  \/ OrderRemoveTabContent
  \/ OrderSplitAfterTabWidget
  \/ OrderSplitBeforeTabWidget
  \/ OrderSplitAfterTabContent
  \/ OrderMoveTabToTabWidget
  \/ OrderCloseSplitAtTabContent

SpecOrder == Init /\ [][NextOrder]_vars

-----------------------------------------------------------------------------
(* Directional queries.  The toolkit has laid the widgets out: `geometry`  *)
(* holds the bounding rectangle of the root widget, the pane sizes of      *)
(* every splitter widget and the size of the dividers.                     *)

\* A ClientRect, and a TabWidgetPosition once tabWidget names the group.
Rect(left, top, width, height) ==
  [left |-> left, right |-> left + width, width |-> width,
   top |-> top, bottom |-> top + height, height |-> height,
   tabWidget |-> NULL]

RECURSIVE getSplitterPanePositions(_, _, _)
RECURSIVE PanePositionsFrom(_, _, _, _, _)

\* The loop of lines 1003-1038 from the child number i (counted from 1) on.
PanePositionsFrom(splitterNode, i, edgePosition, bounds, geo) ==
  IF i > Len(splitterNode.children) THEN <<>>
  ELSE
    With(geo.paneSizes[splitterNode.splitter][i]
           + (IF i # Len(splitterNode.children) THEN geo.dividerSize ELSE 0),
         LAMBDA size :
    With(IF splitterNode.orientation = VERTICAL
         THEN [top |-> bounds.top, bottom |-> bounds.bottom, height |-> bounds.height,
               left |-> bounds.left + edgePosition,
               right |-> bounds.left + edgePosition + size,
               width |-> size, tabWidget |-> NULL]
         ELSE [left |-> bounds.left, right |-> bounds.right, width |-> bounds.width,
               top |-> bounds.top + edgePosition,
               bottom |-> bounds.top + edgePosition + size,
               height |-> size, tabWidget |-> NULL],
         LAMBDA childBounds :
      (IF splitterNode.children[i].type = "splitter"
       THEN getSplitterPanePositions(splitterNode.children[i], childBounds, geo)
       ELSE <<[childBounds EXCEPT !.tabWidget = splitterNode.children[i].tabWidget]>>)
      \o PanePositionsFrom(splitterNode, i + 1, edgePosition + size, bounds, geo)))

\* Pane positions that leave room for a divider before the first child.
Mutant_getSplitterPanePositions(splitterNode, bounds, geo) ==
  PanePositionsFrom(splitterNode, 1, geo.dividerSize, bounds, geo)

getSplitterPanePositions(splitterNode, bounds, geo) ==
  PanePositionsFrom(splitterNode, 1, 0, bounds, geo)

\* The bounding rectangle read is that of the root's widget.
getPanePositions(rootNode, geo) ==
  IF rootNode.type = "tabwidget"
  THEN <<[geo.bounds EXCEPT !.tabWidget = rootNode.tabWidget]>>
  ELSE getSplitterPanePositions(rootNode, geo.bounds, geo)

\* A transform that takes the matrix by rows where the code takes it by columns.
Mutant_transform2dPoint(point, matrix) ==
  <<point[1] * matrix[1] + point[2] * matrix[2],
    point[1] * matrix[3] + point[2] * matrix[4]>>

transform2dPoint(point, matrix) ==
  <<point[1] * matrix[1] + point[2] * matrix[3],
    point[1] * matrix[2] + point[2] * matrix[4]>>

transformTabWidgetPosition(position, matrix) ==
  With(transform2dPoint(<<position.left, position.top>>, matrix), LAMBDA topLeft :
  With(transform2dPoint(<<position.right, position.bottom>>, matrix), LAMBDA bottomRight :
    [left |-> Min({topLeft[1], bottomRight[1]}),
     top |-> Min({topLeft[2], bottomRight[2]}),
     bottom |-> Max({topLeft[2], bottomRight[2]}),
     right |-> Max({topLeft[1], bottomRight[1]}),
     width |-> Max({topLeft[1], bottomRight[1]}) - Min({topLeft[1], bottomRight[1]}),
     height |-> Max({topLeft[2], bottomRight[2]}) - Min({topLeft[2], bottomRight[2]}),
     tabWidget |-> position.tabWidget]))

\* The first hit, without the sort.
MutantFirstByLeft(hitPositions) == hitPositions[1]

\* hitPositions.sort(by left)[0]: the first of the positions with the least
\* left, the sort keeping the order of equal elements.
FirstByLeft(hitPositions) ==
  hitPositions[Min({k \in DOMAIN hitPositions :
                      \A j \in DOMAIN hitPositions :
                        hitPositions[k].left <= hitPositions[j].left})]

\* A search that also takes the positions whose left edge is at the centre of
\* the start position.
Mutant_getTabWidgetInDirection(root, geo, tabWidget, transformMatrix) ==
  With(getPanePositions(root, geo), LAMBDA rawPositions :
  With([k \in DOMAIN rawPositions |->
          transformTabWidgetPosition(rawPositions[k], transformMatrix)],
       LAMBDA positions :
  With(SelectSeq(positions, LAMBDA pos : pos.tabWidget = tabWidget),
       LAMBDA starts :
    IF starts = <<>> THEN [result |-> NULL, thrown |-> TRUE]
    ELSE
      With(SelectSeq(positions, LAMBDA pos :
             /\ 2 * pos.left >= starts[1].left + starts[1].right
             /\ 2 * pos.bottom > starts[1].top + starts[1].bottom
             /\ 2 * pos.top <= starts[1].top + starts[1].bottom),
           LAMBDA hitPositions :
        [result |-> IF hitPositions # <<>> THEN FirstByLeft(hitPositions).tabWidget
                    ELSE NULL,
         thrown |-> FALSE]))))

\* The centre of the start position is (left + right) / 2, (top + bottom) / 2:
\* every comparison with it is made on the doubles.  A tab widget of no group
\* has no start position, and reading the left of undefined is a TypeError.
_getTabWidgetInDirection(root, geo, tabWidget, transformMatrix) ==
  With(getPanePositions(root, geo), LAMBDA rawPositions :
  With([k \in DOMAIN rawPositions |->
          transformTabWidgetPosition(rawPositions[k], transformMatrix)],
       LAMBDA positions :
  With(SelectSeq(positions, LAMBDA pos : pos.tabWidget = tabWidget),
       LAMBDA starts :
    IF starts = <<>> THEN [result |-> NULL, thrown |-> TRUE]
    ELSE
      With(SelectSeq(positions, LAMBDA pos :
             /\ 2 * pos.left > starts[1].left + starts[1].right
             /\ 2 * pos.bottom > starts[1].top + starts[1].bottom
             /\ 2 * pos.top <= starts[1].top + starts[1].bottom),
           LAMBDA hitPositions :
        [result |-> IF hitPositions # <<>> THEN FirstByLeft(hitPositions).tabWidget
                    ELSE NULL,
         thrown |-> FALSE]))))

getTabWidgetToLeft(root, geo, tabWidget) ==
  _getTabWidgetInDirection(root, geo, tabWidget, <<-1, 0, 0, 1>>)

getTabWidgetToRight(root, geo, tabWidget) ==
  _getTabWidgetInDirection(root, geo, tabWidget, <<1, 0, 0, 1>>)

getTabWidgetAbove(root, geo, tabWidget) ==
  _getTabWidgetInDirection(root, geo, tabWidget, <<0, 1, -1, 0>>)

getTabWidgetBelow(root, geo, tabWidget) ==
  _getTabWidgetInDirection(root, geo, tabWidget, <<0, -1, 1, 0>>)

-----------------------------------------------------------------------------
(* A third caller: one that has split its layout, shown it with update()   *)
(* and let the toolkit lay it out, and now asks for the neighbours of its  *)
(* tab widgets.                                                            *)

\* A pane is at most this long or wide.
MaxPaneSize == 2

\* A divider is at most this thick.
MaxDividerSize == 1

\* The root widget is at most this long or wide.
MaxExtent == 2 * MaxPaneSize + MaxDividerSize

\* The top left corner of the root widget is at one of these places.
Origins == {<<1, 2>>}

OtherOrientation(o) == IF o = VERTICAL THEN HORIZONTAL ELSE VERTICAL

\* The layouts this caller makes: the one just constructed, then split along
\* o, then the first half split across, then the second half split across,
\* which makes a grid of two by two.
Constructed == Outcome(CreateTabWidgetInfo(<<>>, 1), 1, NULL, FALSE)

SplitInTwo(o) == splitAfterTabWidget(Constructed.root, Constructed.counter, 1, o)

SplitInThree(o) ==
  splitAfterTabWidget(SplitInTwo(o).root, SplitInTwo(o).counter, 1, OtherOrientation(o))

SplitInFour(o) ==
  splitAfterTabWidget(SplitInThree(o).root, SplitInThree(o).counter, 2,
                      OtherOrientation(o))

\* The second half split once more along o: three panes side by side.
SplitInThreeAlong(o) ==
  splitAfterTabWidget(SplitInTwo(o).root, SplitInTwo(o).counter, 2, o)

LaidOutLayouts ==
  {Constructed}
  \cup {SplitInTwo(o) : o \in SplitOrientation}
  \cup {SplitInThree(o) : o \in SplitOrientation}
  \cup {SplitInThreeAlong(o) : o \in SplitOrientation}
  \cup {SplitInFour(o) : o \in SplitOrientation}

\* The configuration of this caller: a root container and nothing else.
PlainLayout ==
  [rootContainer |-> TheRootContainer, emptySplitFactory |-> NULL,
   topLeftElement |-> NULL, topRightElement |-> NULL,
   leftSpaceDefaultElementFactory |-> NULL, rightSpaceDefaultElementFactory |-> NULL]

RECURSIVE Sum(_)
Sum(s) == IF s = <<>> THEN 0 ELSE Head(s) + Sum(Tail(s))

\* The layout of the toolkit has settled: the panes and dividers of every
\* splitter fill it along its axis, and every child fills its pane.
RECURSIVE Settled(_, _, _, _)
Settled(infoNode, width, height, geo) ==
  IF infoNode.type = "tabwidget" THEN TRUE
  ELSE
    /\ infoNode.splitter \in DOMAIN geo.paneSizes
    /\ \E sizes \in {geo.paneSizes[infoNode.splitter]} :
         /\ Len(sizes) = Len(infoNode.children)
         /\ Sum(sizes) + (Len(sizes) - 1) * geo.dividerSize
              = (IF infoNode.orientation = VERTICAL THEN width ELSE height)
         /\ \A i \in DOMAIN sizes :
              Settled(infoNode.children[i],
                      IF infoNode.orientation = VERTICAL THEN sizes[i] ELSE width,
                      IF infoNode.orientation = VERTICAL THEN height ELSE sizes[i],
                      geo)

\* The most children a splitter of the tree has.
RECURSIVE MostChildren(_)
MostChildren(node) ==
  IF node.type = "tabwidget" THEN 0
  ELSE Max({Len(node.children)}
           \cup {MostChildren(node.children[i]) : i \in DOMAIN node.children})

\* The settled geometries of a layout shown.
Geometries(root) ==
  {geo \in [bounds : {Rect(o[1], o[2], w, h) : o \in Origins,
                                                   w \in 0..MaxExtent, h \in 0..MaxExtent},
            dividerSize : 0..MaxDividerSize,
            paneSizes : [1..NumSplitters(root) ->
                           [1..MostChildren(root) -> 0..MaxPaneSize]]] :
     Settled(root, geo.bounds.width, geo.bounds.height, geo)}

InitGeometry ==
  \E made \in LaidOutLayouts :
    \E shown \in {update(made.root, PlainLayout,
                         [document |-> EmptyDocument, tabIdCounter |-> 0])} :
      /\ rootInfoNode = shown.root
      /\ tabWidgetIdCounter = made.counter
      /\ call = "update"
      /\ pre = made.root
      /\ preCounter = made.counter
      /\ result = NULL
      /\ thrown = FALSE
      /\ rootContainer = TheRootContainer
      /\ emptySplitFactory = NULL
      /\ topLeftElement = NULL
      /\ topRightElement = NULL
      /\ leftSpaceDefaultElementFactory = NULL
      /\ rightSpaceDefaultElementFactory = NULL
      /\ tabIdCounter = 0
      /\ document = shown.world.document
      /\ preDocument = EmptyDocument
      /\ session = NoSession
      /\ geometry \in Geometries(shown.root)
      /\ windowId = NULL
      /\ tabWidgetWindowId = [id \in 1..made.counter |-> NULL]

\* What a query hands back: a value, or a TypeError.
Answer(value) == [result |-> value, thrown |-> FALSE]

TypeError == [result |-> NULL, thrown |-> TRUE]

getTabContentsByTabWidget(root, tabWidget) ==
  IF findTabWidgetInfoByTabWidget(root, tabWidget) = NoPath THEN Answer(NULL)
  ELSE LET info == NodeAt(root, findTabWidgetInfoByTabWidget(root, tabWidget))
       IN  IF Len(info.children) = 0
           THEN Answer(IF info.emptyTabContent # NULL
                       THEN <<info.emptyTabContent>> ELSE <<>>)
           ELSE Answer([k \in DOMAIN info.children |-> info.children[k].content])

\* info.tabInfo is null when the content is a group's empty tab content.
getTabByTabContent(root, tabContent) ==
  LET info == findTabWidgetInfoByTabContent(root, tabContent)
  IN  IF info = NoHit THEN Answer(NULL)
      ELSE IF info.slot = 0 THEN TypeError
      ELSE Answer(NodeAt(root, info.path).children[info.slot].tab)

getTabWidgetByTabContent(root, tabContent) ==
  LET info == findTabWidgetInfoByTabContent(root, tabContent)
  IN  IF info = NoHit THEN Answer(NULL)
      ELSE Answer(NodeAt(root, info.path).tabWidget)

getTabContentByTab(root, tab) ==
  LET info == findTabWidgetInfoByTab(root, tab)
  IN  IF info = NoHit THEN Answer(NULL)
      ELSE IF info.slot # 0
      THEN Answer(NodeAt(root, info.path).children[info.slot].content)
      ELSE Answer(NodeAt(root, info.path).emptyTabContent)

getEmptyContentByTabWidget(root, tabWidget) ==
  IF findTabWidgetInfoByTabWidget(root, tabWidget) = NoPath THEN Answer(NULL)
  ELSE LET info == NodeAt(root, findTabWidgetInfoByTabWidget(root, tabWidget))
       IN  Answer(IF Len(info.children) = 0 THEN info.emptyTabContent ELSE NULL)

\* A query: the tree is left as it is.
Query(c, subject, out) ==
  Change(c, Outcome(rootInfoNode, tabWidgetIdCounter, out.result, out.thrown),
         subject, FALSE)

GetTabWidgetToLeft ==
  \E w \in TabWidgets(rootInfoNode) :
    Query("getTabWidgetToLeft", w, getTabWidgetToLeft(rootInfoNode, geometry, w))

GetTabWidgetToRight ==
  \E w \in TabWidgets(rootInfoNode) :
    Query("getTabWidgetToRight", w, getTabWidgetToRight(rootInfoNode, geometry, w))

GetTabWidgetAbove ==
  \E w \in TabWidgets(rootInfoNode) :
    Query("getTabWidgetAbove", w, getTabWidgetAbove(rootInfoNode, geometry, w))

GetTabWidgetBelow ==
  \E w \in TabWidgets(rootInfoNode) :
    Query("getTabWidgetBelow", w, getTabWidgetBelow(rootInfoNode, geometry, w))

GetTabContentsByTabWidget ==
  \E w \in TabWidgets(rootInfoNode) :
    Query("getTabContentsByTabWidget", w, getTabContentsByTabWidget(rootInfoNode, w))

GetTabByTabContent ==
  \E c \in Contents :
    Query("getTabByTabContent", c, getTabByTabContent(rootInfoNode, c))

GetTabWidgetByTabContent ==
  \E c \in Contents :
    Query("getTabWidgetByTabContent", c, getTabWidgetByTabContent(rootInfoNode, c))

GetTabContentByTab ==
  \E t \in Tabs :
    Query("getTabContentByTab", t, getTabContentByTab(rootInfoNode, t))

GetEmptyContentByTabWidget ==
  \E w \in TabWidgets(rootInfoNode) :
    Query("getEmptyContentByTabWidget", w, getEmptyContentByTabWidget(rootInfoNode, w))

NextGeometry ==
  \/ GetTabWidgetToLeft
  \/ GetTabWidgetToRight
  \/ GetTabWidgetAbove
  \/ GetTabWidgetBelow
  \/ GetTabContentsByTabWidget
  \/ GetTabByTabContent
  \/ GetTabWidgetByTabContent
  \/ GetTabContentByTab
  \/ GetEmptyContentByTabWidget

SpecGeometry == InitGeometry /\ [][NextGeometry]_vars

-----------------------------------------------------------------------------
(* A fourth caller: one that also tells the layout which window it is in,  *)
(* at any moment between its other calls.                                  *)

\* This caller splits no further once tabWidgetIdCounter has reached this value.
MaxWindowTabWidgetId == 3

\* It does not call appendTab once the tree holds this many slots.
MaxWindowSlots == 1

\* The window ids it hands to setWindowId are 1..NumWindowIds.
NumWindowIds == 2

WindowIds == 1..NumWindowIds

\* setWindowId: the layout keeps the id and every tab widget of the tree gets it.
setWindowId(root, windowIds, newWindowId) ==
  [id \in DOMAIN windowIds |->
     IF id \in Range(getAllTabWidgets(root)) THEN newWindowId ELSE windowIds[id]]

SetWindowId ==
  \E w \in WindowIds :
    /\ Returned("setWindowId", Outcome(rootInfoNode, tabWidgetIdCounter, NULL, FALSE))
    /\ windowId' = w
    /\ tabWidgetWindowId' = setWindowId(rootInfoNode, tabWidgetWindowId, w)
    /\ preDocument' = document
    /\ session' = NoSession
    /\ UNCHANGED <<configVars, tabIdCounter, document, geometry>>

WindowAppendTab ==
  /\ NumSlots(rootInfoNode) < MaxWindowSlots
  /\ AppendTab

WindowRemoveTabContent == RemoveTabContent

WindowSplitAfterTabWidget ==
  /\ tabWidgetIdCounter < MaxWindowTabWidgetId
  /\ SplitAfterTabWidget

WindowSplitBeforeTabWidget ==
  /\ tabWidgetIdCounter < MaxWindowTabWidgetId
  /\ SplitBeforeTabWidget

WindowSplitAfterTabContent ==
  /\ tabWidgetIdCounter < MaxWindowTabWidgetId
  /\ SplitAfterTabContent

WindowMoveTabToTabWidget == MoveTabToTabWidget

WindowCloseSplitAtTabContent == CloseSplitAtTabContent

NextWindow ==
  \/ SetWindowId
  \/ WindowAppendTab
  \/ WindowRemoveTabContent
  \/ WindowSplitAfterTabWidget
  \/ WindowSplitBeforeTabWidget
  \/ WindowSplitAfterTabContent
  \/ WindowMoveTabToTabWidget
  \/ WindowCloseSplitAtTabContent

SpecWindow == Init /\ [][NextWindow]_vars

-----------------------------------------------------------------------------
(* Vocabulary of the properties *)

\* The last call was one that gives the outcome `out` when made on `pre`.
Was(name, out) ==
  /\ call = name
  /\ rootInfoNode = out.root
  /\ tabWidgetIdCounter = out.counter
  /\ result = out.result
  /\ thrown = out.thrown

\* Number of splitters on the longest way from node down to a tab-group.
RECURSIVE Depth(_)
Depth(node) ==
  IF node.type = "splitter"
  THEN 1 + Max({0} \cup {Depth(node.children[i]) : i \in DOMAIN node.children})
  ELSE 0

RECURSIVE EverySplitterHasTwo(_)
EverySplitterHasTwo(node) ==
  node.type = "splitter" =>
    /\ Len(node.children) >= 2
    /\ \A i \in DOMAIN node.children : EverySplitterHasTwo(node.children[i])

-----------------------------------------------------------------------------
(* C1: whatever calls have been made on a new SplitLayout, the root of the *)
(* tree is a tab-group or a splitter with at least two children.           *)
C1_RootNeverRedundant ==
  rootInfoNode.type = "splitter" => Len(rootInfoNode.children) >= 2

\* closeSplitAtTabContent has just merged the two children of the root splitter
\* and the root has collapsed into the one tab-group left.
C1_Witness ==
  /\ call = "closeSplitAtTabContent"
  /\ pre.type = "splitter"
  /\ Len(pre.children) = 2
  /\ rootInfoNode.type = "tabwidget"

(* C2: after every call, every splitter of the tree, at every depth, has   *)
(* at least two children.                                                  *)
C2_NoRedundantSplitter == EverySplitterHasTwo(rootInfoNode)

\* closeSplitAtTabContent has just merged the two children of a splitter three
\* levels down, and that splitter is gone.
C2_Witness ==
  /\ call = "closeSplitAtTabContent"
  /\ Depth(pre) = 3
  /\ Depth(rootInfoNode) = 2
  /\ NumSplitters(rootInfoNode) = NumSplitters(pre) - 1

\* A tab-group as a split creates it: no slots, a tab widget of its own and
\* nothing else yet.
EmptyGroup(id) ==
  [type |-> "tabwidget", children |-> <<>>, tabWidget |-> id,
   emptyTab |-> NULL, emptyTabContent |-> NULL, emptyContainer |-> NULL,
   leftSpaceDefaultElement |-> NULL, rightSpaceDefaultElement |-> NULL]

\* A splitter as a split creates it.
FreshSplitter(orientation, first, second) ==
  [type |-> "splitter", children |-> <<first, second>>,
   orientation |-> orientation, splitter |-> NULL]

\* The returned widget is one the tree did not hold before the call.
ReturnedNewWidget == result # NULL /\ ~InTree(pre, result)

\* s with x put in right after its k-th element.
InsertAfter(s, k, x) == SubSeq(s, 1, k) \o <<x>> \o SubSeq(s, k + 1, Len(s))

(* C3: splitAfterTabWidget(g, axis) on a group g whose parent splitter has *)
(* orientation axis puts one new empty group into that parent right after  *)
(* g, allocates no splitter, leaves the other children in their order and  *)
(* returns the new group's widget.                                         *)
C3_SplitAfterSameOrientation ==
  \A w \in TabWidgets(pre), o \in SplitOrientation :
    LET path == findPathToTabWidget(pre, w)
    IN  ( /\ call = "splitAfterTabWidget"
          /\ Was("splitAfterTabWidget", splitAfterTabWidget(pre, preCounter, w, o))
          /\ path # NoPath
          /\ path # <<>>
          /\ NodeAt(pre, Front(path)).orientation = o )
        =>
        /\ ~thrown
        /\ ReturnedNewWidget
        /\ rootInfoNode =
             ReplaceAt(pre, Front(path),
               [NodeAt(pre, Front(path)) EXCEPT
                  !.children = InsertAfter(@, Last(path), EmptyGroup(result))])
        /\ NumSplitters(rootInfoNode) = NumSplitters(pre)

\* The example of the specification: [G0{C1}, G1{}] has become [G0{C1}, G2{}, G1{}].
C3_Witness ==
  /\ call = "splitAfterTabWidget"
  /\ pre.type = "splitter"
  /\ Len(pre.children) = 2
  /\ rootInfoNode.type = "splitter"
  /\ Len(rootInfoNode.children) = 3
  /\ rootInfoNode.children[1] = pre.children[1]
  /\ rootInfoNode.children[1].children # <<>>
  /\ rootInfoNode.children[2] = EmptyGroup(result)
  /\ rootInfoNode.children[3] = pre.children[2]

(* C4: splitAfterTabWidget(g, axis) on a group g that is the root, or whose *)
(* parent splitter has the other orientation, allocates one new splitter   *)
(* of orientation axis with the children [g, new empty group] and puts it  *)
(* where g was; nothing else in the tree moves.                            *)
C4_SplitAfterOtherOrientation ==
  \A w \in TabWidgets(pre), o \in SplitOrientation :
    LET path == findPathToTabWidget(pre, w)
    IN  ( /\ call = "splitAfterTabWidget"
          /\ Was("splitAfterTabWidget", splitAfterTabWidget(pre, preCounter, w, o))
          /\ path # NoPath
          /\ (path = <<>> \/ NodeAt(pre, Front(path)).orientation # o) )
        =>
        /\ ~thrown
        /\ ReturnedNewWidget
        /\ rootInfoNode =
             ReplaceAt(pre, path,
               FreshSplitter(o, NodeAt(pre, path), EmptyGroup(result)))
        /\ NumSplitters(rootInfoNode) = NumSplitters(pre) + 1

\* A group that sat in a splitter of the other orientation now sits, followed
\* by the new group, in a new splitter at its former place.
C4_Witness ==
  /\ call = "splitAfterTabWidget"
  /\ pre.type = "splitter"
  /\ result # NULL
  /\ NumSplitters(rootInfoNode) = NumSplitters(pre) + 1
  /\ Len(rootInfoNode.children) = Len(pre.children)
  /\ \E i \in DOMAIN rootInfoNode.children :
       /\ pre.children[i].type = "tabwidget"
       /\ rootInfoNode.children[i] =
            FreshSplitter(rootInfoNode.children[i].orientation,
                          pre.children[i], EmptyGroup(result))
       /\ rootInfoNode.children[i].orientation # pre.orientation

(* C5: splitAfterTabContent(c, axis), c being the content of the slot that *)
(* the lookup finds at position k of group g, keeps the slots up to and    *)
(* including k in g, moves the slots after k into the new group, both in   *)
(* their order, and places the new group right after g: as a sibling when  *)
(* g's parent has orientation axis, else in a new splitter [g, new] of     *)
(* orientation axis at g's former place.                                   *)
C5_SplitAfterTabContent ==
  \A c \in Contents, o \in SplitOrientation :
    LET hit == findPathToTabContent(pre, c)
    IN  ( /\ call = "splitAfterTabContent"
          /\ Was("splitAfterTabContent", splitAfterTabContent(pre, preCounter, c, o))
          /\ hit # NoHit
          /\ hit.slot > 0 )
        =>
        LET g == NodeAt(pre, hit.path)
            kept == [g EXCEPT !.children = SubSeq(@, 1, hit.slot)]
            new == [EmptyGroup(result) EXCEPT
                      !.children = SubSeq(g.children, hit.slot + 1, Len(g.children))]
        IN  /\ ~thrown
            /\ ReturnedNewWidget
            /\ IF hit.path # <<>> /\ NodeAt(pre, Front(hit.path)).orientation = o
               THEN rootInfoNode =
                      ReplaceAt(pre, Front(hit.path),
                        [NodeAt(pre, Front(hit.path)) EXCEPT
                           !.children =
                             InsertAfter([@ EXCEPT ![Last(hit.path)] = kept],
                                         Last(hit.path), new)])
               ELSE rootInfoNode = ReplaceAt(pre, hit.path, FreshSplitter(o, kept, new))

\* A group has been split after a slot that was not its last one: the new
\* group, a sibling of the old one, has taken over the slots behind it.
C5_Witness ==
  /\ call = "splitAfterTabContent"
  /\ result # NULL
  /\ NumSplitters(rootInfoNode) = NumSplitters(pre)
  /\ \E c \in Contents :
       LET hit == findPathToTabContent(pre, c)
       IN  /\ hit # NoHit
           /\ hit.slot > 0
           /\ hit.slot < Len(NodeAt(pre, hit.path).children)
           /\ Was("splitAfterTabContent",
                  splitAfterTabContent(pre, preCounter, c, pre.orientation))
           /\ NodeAt(rootInfoNode, findPathToTabWidget(rootInfoNode, result)).children
                = SubSeq(NodeAt(pre, hit.path).children, hit.slot + 1,
                         Len(NodeAt(pre, hit.path).children))

(* C6: splitBeforeTabWidget(g, axis) on a group g of the tree gives the    *)
(* tree that splitAfterTabWidget(g, axis) gives with g and the new empty   *)
(* group exchanged: the new group is the child right before g, g keeps its *)
(* slots and every other child keeps its position.                         *)
C6_SplitBeforeIsSwappedSplitAfter ==
  \A w \in TabWidgets(pre), o \in SplitOrientation :
    ( /\ call = "splitBeforeTabWidget"
      /\ Was("splitBeforeTabWidget", splitBeforeTabWidget(pre, preCounter, w, o))
      /\ InTree(pre, w) )
    =>
    LET after == splitAfterTabWidget(pre, preCounter, w, o)
        path == findPathToTabWidget(after.root, w)
        parent == NodeAt(after.root, Front(path))
        k == Last(path)
    IN  /\ ~thrown
        /\ ReturnedNewWidget
        /\ result = after.result
        /\ parent.children[k + 1] = EmptyGroup(result)
        /\ parent.children[k] = NodeAt(pre, findPathToTabWidget(pre, w))
        /\ rootInfoNode =
             ReplaceAt(after.root, Front(path),
               [parent EXCEPT !.children[k] = parent.children[k + 1],
                              !.children[k + 1] = parent.children[k]])

\* A group with a slot, one of three children of a splitter, has got the new
\* empty group as the sibling right before it.
C6_Witness ==
  /\ call = "splitBeforeTabWidget"
  /\ result # NULL
  /\ pre.type = "splitter"
  /\ Len(rootInfoNode.children) = 3
  /\ \E i \in 1..2 :
       /\ rootInfoNode.children[i] = EmptyGroup(result)
       /\ rootInfoNode.children[i + 1] = pre.children[i]
       /\ pre.children[i].type = "tabwidget"
       /\ pre.children[i].children # <<>>

\* How many slots of the tree hold the tab handle t together with content c.
SlotCount(root, t, c) ==
  Cardinality({k \in DOMAIN AllTabInfos(root) :
                 AllTabInfos(root)[k].tab = t /\ AllTabInfos(root)[k].content = c})

\* The (tab, content) pairs of the slots of the tree.
SlotPairs(root) ==
  {<<AllTabInfos(root)[k].tab, AllTabInfos(root)[k].content>> :
     k \in DOMAIN AllTabInfos(root)}

\* The slots of the group around tabWidget.
SlotsOf(root, tabWidget) == NodeAt(root, findPathToTabWidget(root, tabWidget)).children

(* C7: moveTabToTabWidget(tab, target, index), for a tab owned by a slot   *)
(* of the tree, a target group of the tree and any index, keeps the number *)
(* of slots of the tree and the (tab, content) pairs they hold: no slot is *)
(* created, duplicated or lost.                                            *)
C7_MovePreservesSlots ==
  \A t \in Tabs, w \in TabWidgets(pre), i \in TabIndexes :
    ( /\ call = "moveTabToTabWidget"
      /\ Was("moveTabToTabWidget", moveTabToTabWidget(pre, preCounter, t, w, i))
      /\ findTabWidgetInfoByTab(pre, t) # NoHit
      /\ findTabWidgetInfoByTab(pre, t).slot > 0
      /\ InTree(pre, w) )
    =>
    /\ ~thrown
    /\ NumSlots(rootInfoNode) = NumSlots(pre)
    /\ SlotPairs(rootInfoNode) = SlotPairs(pre)
    /\ \A t2 \in Tabs, c2 \in Contents :
         SlotCount(rootInfoNode, t2, c2) = SlotCount(pre, t2, c2)

\* A slot has gone from one group to another one, which already held a slot.
C7_Witness ==
  /\ call = "moveTabToTabWidget"
  /\ ~thrown
  /\ \E w \in TabWidgets(pre) \cap TabWidgets(rootInfoNode) :
       /\ InTree(pre, w)
       /\ Len(SlotsOf(pre, w)) >= 1
       /\ Len(SlotsOf(rootInfoNode, w)) = Len(SlotsOf(pre, w)) + 1

\* Math.max(0, Math.min(i, n))
Clamp(i, n) == Max({0, Min({i, n})})

(* C8: moveTabToTabWidget(tab, target, i) with the source group different  *)
(* from the target, for every integer i, takes the slot out of the source  *)
(* and leaves it in the target at index max(0, min(i, n)), n being the     *)
(* target's number of slots before the call; the other slots of both       *)
(* groups keep their order.                                                *)
C8_MoveLandsAtClampedIndex ==
  \A t \in Tabs, w \in TabWidgets(pre), i \in TabIndexes :
    LET source == findTabWidgetInfoByTab(pre, t)
        target == findPathToTabWidget(pre, w)
    IN  ( /\ call = "moveTabToTabWidget"
          /\ Was("moveTabToTabWidget", moveTabToTabWidget(pre, preCounter, t, w, i))
          /\ source # NoHit
          /\ source.slot > 0
          /\ target # NoPath
          /\ source.path # target )
        =>
        LET from == NodeAt(pre, source.path).children
            to == NodeAt(pre, target).children
        IN  /\ ~thrown
            /\ NodeAt(rootInfoNode, source.path).children = RemoveAt(from, source.slot)
            /\ NodeAt(rootInfoNode, target).children =
                 InsertAfter(to, Clamp(i, Len(to)), from[source.slot])

\* A slot moved with index -1 into another group that held two slots stands
\* between them: slice(0, -1) keeps the first and slice(-1) the last.
C8_Witness ==
  /\ call = "moveTabToTabWidget"
  /\ ~thrown
  /\ \E t \in Tabs, w \in TabWidgets(pre) :
       LET source == findTabWidgetInfoByTab(pre, t)
           target == findPathToTabWidget(pre, w)
       IN  /\ source # NoHit
           /\ source.slot > 0
           /\ target # NoPath
           /\ source.path # target
           /\ Len(NodeAt(pre, target).children) = 2
           /\ Was("moveTabToTabWidget", moveTabToTabWidget(pre, preCounter, t, w, -1))
           /\ NodeAt(rootInfoNode, target).children =
                InsertAfter(NodeAt(pre, target).children, 1,
                            NodeAt(pre, source.path).children[source.slot])

\* Where the moved slot is after a move inside its group, counted from 0:
\* position is where it was, tabIndex the index asked for.
ReorderedIndex(position, tabIndex) ==
  IF position >= tabIndex THEN tabIndex ELSE tabIndex - 1

C10_CloseSplitMergesNeighbours ==
  \A c \in Contents :
    LET hit == findPathToTabContent(pre, c)
    IN  ( /\ call = "closeSplitAtTabContent"
          /\ Was("closeSplitAtTabContent", closeSplitAtTabContent(pre, preCounter, c))
          /\ hit # NoHit
          /\ hit.path # <<>>
          /\ Len(NodeAt(pre, Front(hit.path)).children) >= 2
          /\ LET parent == NodeAt(pre, Front(hit.path))
                 k == Last(hit.path)
             IN  parent.children[IF k < Len(parent.children) THEN k + 1 ELSE k - 1].type
                   = "tabwidget" )
        =>
        LET parent == NodeAt(pre, Front(hit.path))
            k == Last(hit.path)
            n == Len(parent.children)
            l == IF k < n THEN k ELSE k - 1
            slots == parent.children[l].children \o parent.children[l + 1].children
            merged(survivor) == [survivor EXCEPT !.children = slots]
            closed(survivor) ==
              IF n = 2 THEN merged(survivor)
              ELSE [parent EXCEPT
                      !.children = SubSeq(@, 1, l - 1) \o <<merged(survivor)>>
                                     \o SubSeq(@, l + 2, n)]
        IN  /\ ~thrown
            /\ \E survivor \in {parent.children[l], parent.children[l + 1]} :
                 rootInfoNode = ReplaceAt(pre, Front(hit.path), closed(survivor))

\* The example of the specification: [A{C1}, B{C2}] has become one root
\* tab-group with the slots C1 then C2.
C10_Witness ==
  /\ call = "closeSplitAtTabContent"
  /\ pre.type = "splitter"
  /\ Len(pre.children) = 2
  /\ pre.children[1].type = "tabwidget"
  /\ pre.children[2].type = "tabwidget"
  /\ Len(pre.children[1].children) = 1
  /\ Len(pre.children[2].children) = 1
  /\ pre.children[1].children[1].content # pre.children[2].children[1].content
  /\ rootInfoNode.type = "tabwidget"
  /\ rootInfoNode.children = pre.children[1].children \o pre.children[2].children
  /\ closeSplitAtTabContent(pre, preCounter, pre.children[1].children[1].content).root
       = rootInfoNode

\* The tab widget of the first tab-group below node, going down through the
\* first child of every splitter on the way.
RECURSIVE LeftmostTabWidget(_)
LeftmostTabWidget(node) ==
  IF node.type = "tabwidget" THEN node.tabWidget
  ELSE LeftmostTabWidget(node.children[1])

(* C11: closeSplitAtTabContent(c), when the sibling chosen as merge        *)
(* partner of c's group g (the one right after g, or the one right before  *)
(* g when g is the last child) is a splitter, puts all the slots of g,     *)
(* after those it already holds, into the first tab-group of that subtree  *)
(* in depth-first child order, takes g out of the tree and leaves the slot *)
(* sequence of every other group as it was.                                *)
C11_CloseSplitIntoSplitterSubtree ==
  \A c \in Contents :
    LET hit == findPathToTabContent(pre, c)
    IN  ( /\ call = "closeSplitAtTabContent"
          /\ Was("closeSplitAtTabContent", closeSplitAtTabContent(pre, preCounter, c))
          /\ hit # NoHit
          /\ hit.path # <<>>
          /\ LET parent == NodeAt(pre, Front(hit.path))
                 k == Last(hit.path)
             IN  parent.children[IF k < Len(parent.children) THEN k + 1 ELSE k - 1].type
                   = "splitter" )
        =>
        LET parent == NodeAt(pre, Front(hit.path))
            k == Last(hit.path)
            g == parent.children[k]
            partner == parent.children[IF k < Len(parent.children) THEN k + 1 ELSE k - 1]
            first == LeftmostTabWidget(partner)
        IN  /\ ~thrown
            /\ Range(getAllTabWidgets(rootInfoNode)) =
                 Range(getAllTabWidgets(pre)) \ {g.tabWidget}
            /\ Len(getAllTabWidgets(rootInfoNode)) = Len(getAllTabWidgets(pre)) - 1
            /\ SlotsOf(rootInfoNode, first) = SlotsOf(pre, first) \o g.children
            /\ \A w \in Range(getAllTabWidgets(rootInfoNode)) \ {first} :
                 SlotsOf(rootInfoNode, w) = SlotsOf(pre, w)

\* A group holding a slot has been closed into the splitter before it, whose
\* first tab-group held a slot of its own and now holds both.
C11_Witness ==
  /\ call = "closeSplitAtTabContent"
  /\ ~thrown
  /\ pre.type = "splitter"
  /\ Len(pre.children) = 2
  /\ pre.children[1].type = "splitter"
  /\ pre.children[2].type = "tabwidget"
  /\ Len(pre.children[2].children) = 1
  /\ Len(SlotsOf(pre, LeftmostTabWidget(pre.children[1]))) = 1
  /\ ~InTree(rootInfoNode, pre.children[2].tabWidget)
  /\ SlotsOf(rootInfoNode, LeftmostTabWidget(pre.children[1])) =
       SlotsOf(pre, LeftmostTabWidget(pre.children[1])) \o pre.children[2].children

(* C14: appendTab(w, t, c), when w is the widget of a group of the tree,   *)
(* makes that group's slots its previous slots followed by the one new     *)
(* slot (t, c) and changes nothing else; when w is the widget of no group  *)
(* of the tree the call leaves the tree as it is and does not throw.       *)
C14_AppendTab ==
  \A w \in TabWidgets(pre), c \in Contents :
    ( /\ call = "appendTab"
      /\ Was("appendTab", appendTab(pre, preCounter, w, TabOf(c), c)) )
    =>
    /\ ~thrown
    /\ result = NULL
    /\ tabWidgetIdCounter = preCounter
    /\ IF InTree(pre, w)
       THEN LET path == findPathToTabWidget(pre, w)
                slot == [type |-> "tabinfo", tab |-> TabOf(c), content |-> c,
                         container |-> NULL]
            IN  rootInfoNode =
                  ReplaceAt(pre, path,
                    [NodeAt(pre, path) EXCEPT !.children = @ \o <<slot>>])
       ELSE rootInfoNode = pre

\* A second slot, with another content, has been appended to a group of a split
\* layout.
C14_Witness ==
  /\ call = "appendTab"
  /\ pre.type = "splitter"
  /\ \E w \in Range(getAllTabWidgets(pre)) :
       /\ Len(SlotsOf(pre, w)) = 1
       /\ Len(SlotsOf(rootInfoNode, w)) = 2
       /\ SlotsOf(rootInfoNode, w)[1] = SlotsOf(pre, w)[1]
       /\ SlotsOf(rootInfoNode, w)[2].content # SlotsOf(pre, w)[1].content

(* C15: removeTabContent(c), when c is the content of a slot, takes        *)
(* exactly that one slot (the first one holding c in depth-first order)    *)
(* out of its group, the other slots of the group keeping their order, and *)
(* neither adds nor removes a group or a splitter; when no slot holds c    *)
(* the tree is left as it is; nothing is thrown in either case.            *)
C15_RemoveTabContent ==
  \A c \in Contents :
    LET hit == findTabWidgetInfoByTabContent(pre, c)
    IN  ( /\ call = "removeTabContent"
          /\ Was("removeTabContent", removeTabContent(pre, preCounter, c)) )
        =>
        /\ ~thrown
        /\ result = NULL
        /\ IF hit # NoHit /\ hit.slot > 0
           THEN /\ rootInfoNode =
                     ReplaceAt(pre, hit.path,
                       [NodeAt(pre, hit.path) EXCEPT
                          !.children = SubSeq(@, 1, hit.slot - 1)
                                         \o SubSeq(@, hit.slot + 1, Len(@))])
                /\ NumSlots(rootInfoNode) = NumSlots(pre) - 1
                /\ getAllTabWidgets(rootInfoNode) = getAllTabWidgets(pre)
                /\ NumSplitters(rootInfoNode) = NumSplitters(pre)
           ELSE rootInfoNode = pre

\* The only slot of a group of a split layout has been removed and the group,
\* now empty, is still there.
C15_Witness ==
  /\ call = "removeTabContent"
  /\ pre.type = "splitter"
  /\ rootInfoNode.type = "splitter"
  /\ \E w \in Range(getAllTabWidgets(pre)) :
       /\ Len(SlotsOf(pre, w)) = 1
       /\ InTree(rootInfoNode, w)
       /\ SlotsOf(rootInfoNode, w) = <<>>

\* How many slots of the tree hold the content c.
ContentCount(root, c) ==
  Cardinality({k \in DOMAIN getAllTabContents(root) : getAllTabContents(root)[k] = c})

(* C16: after any sequence of calls no content element is held by two      *)
(* slots of the tree: every content is in at most one slot of at most one  *)
(* group.                                                                  *)
C16_ContentsAreUnique ==
  \A c \in Contents : ContentCount(rootInfoNode, c) <= 1

\* appendTab has been called with a content that a slot of the tree already
\* held, and now two slots hold it.
C16_Witness ==
  /\ call = "appendTab"
  /\ \E c \in Contents :
       /\ ContentCount(pre, c) = 1
       /\ ContentCount(rootInfoNode, c) = 2

\* The last call has changed nothing, has returned null and has not thrown.
WasNoOp ==
  /\ ~thrown
  /\ result = NULL
  /\ rootInfoNode = pre
  /\ tabWidgetIdCounter = preCounter

(* C17: a mutation called with a tab widget, a content or a tab that is    *)
(* not in the tree changes nothing, returns null / nothing and does not    *)
(* throw: appendTab, splitAfterTabWidget and splitBeforeTabWidget with the *)
(* widget of no group, removeTabContent, splitAfterTabContent and          *)
(* closeSplitAtTabContent with the content of no slot, moveTabToTabWidget  *)
(* with the tab of no slot or with the widget of no group.                 *)
C17_UnknownArgumentIsNoOp ==
  /\ \A w \in TabWidgets(pre), c \in Contents :
       ( /\ ~InTree(pre, w)
         /\ Was("appendTab", appendTab(pre, preCounter, w, TabOf(c), c)) )
       => WasNoOp
  /\ \A w \in TabWidgets(pre), o \in SplitOrientation :
       ( /\ ~InTree(pre, w)
         /\ Was("splitAfterTabWidget", splitAfterTabWidget(pre, preCounter, w, o)) )
       => WasNoOp
  /\ \A w \in TabWidgets(pre), o \in SplitOrientation :
       ( /\ ~InTree(pre, w)
         /\ Was("splitBeforeTabWidget", splitBeforeTabWidget(pre, preCounter, w, o)) )
       => WasNoOp
  /\ \A c \in Contents :
       ( /\ ContentCount(pre, c) = 0
         /\ \/ Was("removeTabContent", removeTabContent(pre, preCounter, c))
            \/ Was("closeSplitAtTabContent", closeSplitAtTabContent(pre, preCounter, c))
            \/ \E o \in SplitOrientation :
                 Was("splitAfterTabContent", splitAfterTabContent(pre, preCounter, c, o)) )
       => WasNoOp
  /\ \A t \in Tabs, w \in TabWidgets(pre), i \in TabIndexes :
       ( /\ (~InTree(pre, w) \/ \A k \in DOMAIN AllTabInfos(pre) : AllTabInfos(pre)[k].tab # t)
         /\ Was("moveTabToTabWidget", moveTabToTabWidget(pre, preCounter, t, w, i)) )
       => WasNoOp

\* moveTabToTabWidget has been called with a tab that no slot of the tree owns,
\* for a target group of the tree, and has ended in a TypeError.
C17_Witness ==
  /\ call = "moveTabToTabWidget"
  /\ thrown
  /\ \E t \in Tabs, w \in Range(getAllTabWidgets(pre)) :
       /\ \A k \in DOMAIN AllTabInfos(pre) : AllTabInfos(pre)[k].tab # t
       /\ Was("moveTabToTabWidget", moveTabToTabWidget(pre, preCounter, t, w, 0))

(* C18: closeSplitAtTabContent(c), the tree being one unsplit root         *)
(* tab-group and c the content of one of its slots or its empty-state      *)
(* content, leaves the tree as it is and raises no error.                  *)
C18_CloseSplitOfRootIsSkipped ==
  \A c \in Contents :
    ( /\ pre.type = "tabwidget"
      /\ (ContentCount(pre, c) > 0 \/ pre.emptyTabContent = c)
      /\ Was("closeSplitAtTabContent", closeSplitAtTabContent(pre, preCounter, c)) )
    => WasNoOp

\* closeSplitAtTabContent has been called with the content of a slot of the
\* unsplit root group and has ended in a TypeError.
C18_Witness ==
  /\ call = "closeSplitAtTabContent"
  /\ thrown
  /\ pre.type = "tabwidget"
  /\ \E c \in Contents :
       /\ ContentCount(pre, c) > 0
       /\ Was("closeSplitAtTabContent", closeSplitAtTabContent(pre, preCounter, c))

-----------------------------------------------------------------------------
(* Split, update, close *)

\* Two trees alike in the nesting of their splitters, in the orientations, in
\* the order of the children and in the (tab, content) sequence of every group.
RECURSIVE SameShape(_, _)
SameShape(a, b) ==
  /\ a.type = b.type
  /\ Len(a.children) = Len(b.children)
  /\ IF a.type = "splitter"
     THEN /\ a.orientation = b.orientation
          /\ \A i \in DOMAIN a.children : SameShape(a.children[i], b.children[i])
     ELSE \A k \in DOMAIN a.children :
            /\ a.children[k].tab = b.children[k].tab
            /\ a.children[k].content = b.children[k].content

\* The three calls of the round trip have just been made, in a row: a split
\* after a group, update(), and closeSplitAtTabContent on the empty tab
\* content update() gave the new group.
SplitUpdateCloseDone ==
  session.calls = <<"splitAfterTabWidget", "update", "closeSplitAtTabContent">>

\* C12: splitAfterTabWidget of any group of any tree along any axis, then
\* update() with an empty-split factory set, then closeSplitAtTabContent on
\* the empty tab content of the new group, gives a tree with the splitter
\* nesting, the orientations, the child order and the slot sequence of every
\* group of the tree before the split.
C12_SplitUpdateCloseRestoresShape ==
  SplitUpdateCloseDone =>
    /\ ~thrown
    /\ SameShape(rootInfoNode, session.root)

\* The round trip made on a group that holds a tab and lies in a splitter.
C12_Witness ==
  /\ SplitUpdateCloseDone
  /\ emptySplitFactory # NULL
  /\ session.root.type = "splitter"
  /\ NumSlots(session.root) > 0
  /\ \E i \in DOMAIN session.root.children :
       /\ session.root.children[i].type = "tabwidget"
       /\ Len(session.root.children[i].children) > 0
       /\ session.root.children[i].tabWidget = session.subject - 1

-----------------------------------------------------------------------------
(* Append, remove *)

\* An appendTab of a content the tree did not hold, to a group of the tree,
\* and then the removeTabContent of that content have just been made.
AppendRemoveDone == session.calls = <<"appendTab", "removeTabContent">>

\* C13: for a group g of the tree and a content c the tree does not hold,
\* appendTab(g, t, c) followed by removeTabContent(c) leaves the slot sequence
\* of g, and the whole tree, as they were before the append.
C13_AppendRemoveRestores ==
  AppendRemoveDone =>
    /\ ~thrown
    /\ rootInfoNode = session.root
    /\ tabWidgetIdCounter = preCounter

\* The two calls made on a split layout every group of which held a tab.
C13_Witness ==
  /\ AppendRemoveDone
  /\ session.root.type = "splitter"
  /\ \A i \in DOMAIN session.root.children :
       /\ session.root.children[i].type = "tabwidget"
       /\ Len(session.root.children[i].children) > 0

-----------------------------------------------------------------------------
(* update() twice *)

\* The elements whose children update() sets: the splitter widgets, the tab
\* widgets and the root container.
Shown(doc) == {el \in DOMAIN doc.children : el.tag \in {"splitter", "tabwidget", "root"}}

\* Two pages with the same child list of every splitter widget, of every tab
\* widget and of the root container, and the same showTabs flags.
ShownAlike(d, e) ==
  /\ Shown(d) = Shown(e)
  /\ \A el \in Shown(d) : d.children[el] = e.children[el]
  /\ d.showTabs = e.showTabs

\* Two trees of the same nodes with the same stored widgets, containers, empty
\* tabs and default space elements.
RECURSIVE SameStored(_, _)
SameStored(a, b) ==
  /\ a.type = b.type
  /\ Len(a.children) = Len(b.children)
  /\ IF a.type = "splitter"
     THEN /\ a.splitter = b.splitter
          /\ a.orientation = b.orientation
          /\ \A i \in DOMAIN a.children : SameStored(a.children[i], b.children[i])
     ELSE /\ a.tabWidget = b.tabWidget
          /\ a.emptyTab = b.emptyTab
          /\ a.emptyContainer = b.emptyContainer
          /\ a.leftSpaceDefaultElement = b.leftSpaceDefaultElement
          /\ a.rightSpaceDefaultElement = b.rightSpaceDefaultElement
          /\ a.children = b.children

\* update() has just been called twice in a row.
UpdatedTwice == session.calls = <<"update", "update">>

\* C19: update() called twice in a row, with no change of the tree or of the
\* configuration in between, leaves after the second call the child list of
\* every splitter widget and of every tab widget, every showTabs flag, the
\* children of the root container and the widgets, containers and default
\* space elements stored in the nodes as they were after the first call.
C19_UpdateIsIdempotent ==
  UpdatedTwice =>
    /\ ShownAlike(document, preDocument)
    /\ SameStored(rootInfoNode, pre)

\* Two updates of a split layout with a root container, a factory that makes
\* a new empty tab content at every call, a factory of left space elements, a
\* group with a tab and an empty group whose content the second update has
\* replaced.
C19_Witness ==
  /\ UpdatedTwice
  /\ ~thrown
  /\ emptySplitFactory = CREATING
  /\ leftSpaceDefaultElementFactory # NULL
  /\ rootInfoNode.type = "splitter"
  /\ NumSlots(rootInfoNode) > 0
  /\ EmptyTabContents(rootInfoNode) # EmptyTabContents(pre)
  /\ ChildrenOf(document, El("root", rootContainer)) = <<WidgetOf(rootInfoNode)>>

-----------------------------------------------------------------------------
(* The neighbours of the top left group of a grid *)

\* A grid of two by two: a splitter of two splitters of the other orientation,
\* of two groups each.
IsGrid(root) ==
  /\ root.type = "splitter"
  /\ Len(root.children) = 2
  /\ \A i \in 1..2 :
       /\ root.children[i].type = "splitter"
       /\ root.children[i].orientation # root.orientation
       /\ Len(root.children[i].children) = 2
       /\ \A j \in 1..2 : root.children[i].children[j].type = "tabwidget"

\* The groups of a grid by their place: a vertical splitter lays its children
\* out from left to right, a horizontal one from top to bottom.
TopLeft(root) == root.children[1].children[1].tabWidget

TopRight(root) ==
  IF root.orientation = VERTICAL THEN root.children[2].children[1].tabWidget
  ELSE root.children[1].children[2].tabWidget

BottomLeft(root) ==
  IF root.orientation = VERTICAL THEN root.children[1].children[2].tabWidget
  ELSE root.children[2].children[1].tabWidget

\* The last call was the query `name` about the top left group of a grid.
AskedOfTopLeft(name) ==
  /\ session.calls = <<name>>
  /\ IsGrid(rootInfoNode)
  /\ session.subject = TopLeft(rootInfoNode)

GridNeighbours ==
  /\ AskedOfTopLeft("getTabWidgetToRight") =>
       ~thrown /\ result = TopRight(rootInfoNode)
  /\ AskedOfTopLeft("getTabWidgetBelow") =>
       ~thrown /\ result = BottomLeft(rootInfoNode)
  /\ AskedOfTopLeft("getTabWidgetToLeft") => ~thrown /\ result = NULL
  /\ AskedOfTopLeft("getTabWidgetAbove") => ~thrown /\ result = NULL

\* C20 as stated: on a grid of two by two with settled geometry, built as a
\* vertical splitter of two horizontal ones or the other way round, for the
\* top left group getTabWidgetToRight returns the top right group,
\* getTabWidgetBelow the bottom left group, and getTabWidgetToLeft and
\* getTabWidgetAbove return null.
C20_GridNeighboursWhenSettled == GridNeighbours

\* The pane sizes of a splitter of the tree.
PaneSizesOf(infoNode) == geometry.paneSizes[infoNode.splitter]

\* The two inner splitters of the grid are divided at the same place: its
\* rows and its columns are straight.
Aligned == PaneSizesOf(rootInfoNode.children[1]) = PaneSizesOf(rootInfoNode.children[2])

\* Every pane of the grid has a width and a height.
NoEmptyPane ==
  \A sizes \in {PaneSizesOf(rootInfoNode), PaneSizesOf(rootInfoNode.children[1]),
                PaneSizesOf(rootInfoNode.children[2])} :
    \A i \in DOMAIN sizes : sizes[i] > 0

\* C20 with what it needs: on a grid of two by two with settled geometry
\* whose inner splitters are divided at the same place and whose panes all
\* have a width and a height, for the top left group getTabWidgetToRight
\* returns the top right group, getTabWidgetBelow the bottom left group, and
\* getTabWidgetToLeft and getTabWidgetAbove return null.
C20_GridNeighboursWhenAligned ==
  IsGrid(rootInfoNode) /\ Aligned /\ NoEmptyPane => GridNeighbours

\* The group below the top left one has been asked for on a grid of rows
\* split into columns, aligned and without an empty pane, whose panes differ
\* in size, and the bottom left group has been returned.
C20_Witness ==
  /\ AskedOfTopLeft("getTabWidgetBelow")
  /\ rootInfoNode.orientation = HORIZONTAL
  /\ Aligned
  /\ NoEmptyPane
  /\ PaneSizesOf(rootInfoNode) = <<2, 1>>
  /\ PaneSizesOf(rootInfoNode.children[1]) = <<1, 2>>
  /\ geometry.dividerSize = MaxDividerSize
  /\ result = BottomLeft(rootInfoNode)
  /\ result # NULL


\* C21: once setWindowId has been called, every tab widget of the tree carries
\* the window id the layout holds, whatever calls were made since.
C21_TabWidgetsCarryWindowId ==
  windowId # NULL =>
    \A w \in Range(getAllTabWidgets(rootInfoNode)) : tabWidgetWindowId[w] = windowId

\* A split has made a tab widget after setWindowId was called, next to a tab
\* widget made before it.
C21_Witness ==
  /\ windowId # NULL
  /\ call \in {"splitAfterTabWidget", "splitBeforeTabWidget", "splitAfterTabContent"}
  /\ ReturnedNewWidget
  /\ InTree(rootInfoNode, 1)

\* The tabs the tree holds: those of its slots and the empty tabs of its groups.
RECURSIVE HeldTabs(_)
HeldTabs(infoNode) ==
  IF infoNode.type = "splitter"
  THEN UNION {HeldTabs(infoNode.children[i]) : i \in DOMAIN infoNode.children}
  ELSE ({infoNode.emptyTab} \ {NULL})
         \cup {infoNode.children[k].tab : k \in DOMAIN infoNode.children}

\* The contents the tree holds: those of its slots and the empty tab contents
\* of its groups.
HeldContents(root) == Range(getAllTabContents(root)) \cup EmptyTabContents(root)

TabWidgetQueries ==
  {"getTabContentsByTabWidget", "getEmptyContentByTabWidget", "getTabWidgetToLeft",
   "getTabWidgetToRight", "getTabWidgetAbove", "getTabWidgetBelow"}

DirectionalQueries ==
  {"getTabWidgetToLeft", "getTabWidgetToRight", "getTabWidgetAbove",
   "getTabWidgetBelow"}

ContentQueries == {"getTabByTabContent", "getTabWidgetByTabContent"}

TabQueries == {"getTabContentByTab"}

\* The last call was a query about something the tree does not hold.
AskedAboutUnknown ==
  /\ session.calls = <<call>>
  /\ \/ call \in TabWidgetQueries /\ ~InTree(pre, session.subject)
     \/ call \in ContentQueries /\ session.subject \notin HeldContents(pre)
     \/ call \in TabQueries /\ session.subject \notin HeldTabs(pre)

\* C22: a query about a tab widget, tab or content the tree does not hold
\* returns null, does not throw and leaves the tree as it was.
C22_UnknownQueryGivesNull ==
  AskedAboutUnknown => /\ ~thrown
                       /\ result = NULL
                       /\ rootInfoNode = pre

\* The same for the five lookups alone.
UnknownLookupGivesNull ==
  (AskedAboutUnknown /\ call \notin DirectionalQueries) =>
     /\ ~thrown
     /\ result = NULL
     /\ rootInfoNode = pre

\* A directional query has been asked about a tab widget of no group.
C22_Witness ==
  /\ AskedAboutUnknown
  /\ call \in DirectionalQueries
  /\ session.subject = ForeignTabWidget

\* A lookup has been asked about something the tree does not hold.
UnknownLookupAsked == AskedAboutUnknown /\ call = "getTabContentByTab"

\* The splitters of a tree in depth-first order, each with its widget.
RECURSIVE SplitterWidgets(_)
SplitterWidgets(node) ==
  IF node.type = "splitter"
  THEN <<[splitter |-> node.splitter, orientation |-> node.orientation]>>
         \o Flatten([i \in DOMAIN node.children |-> SplitterWidgets(node.children[i])])
  ELSE <<>>

\* b is a without one of its elements, the others in the same order.
DroppedOne(a, b) ==
  \E k \in DOMAIN a :
    b = [i \in 1..(Len(a) - 1) |-> IF i < k THEN a[i] ELSE a[i + 1]]

\* The element b has and a has not, when b is a with one more element.
Gained(a, b) ==
  LET k == CHOOSE k \in DOMAIN b :
             a = [i \in 1..(Len(b) - 1) |-> IF i < k THEN b[i] ELSE b[i + 1]]
  IN  b[k]

\* Every slot that was in the tree before the last call, had a container then
\* and is in the tree now has the same container, in whichever group it is.
ContainersKept ==
  \A k \in DOMAIN AllTabInfos(pre), j \in DOMAIN AllTabInfos(rootInfoNode) :
    ( /\ AllTabInfos(pre)[k].tab = AllTabInfos(rootInfoNode)[j].tab
      /\ AllTabInfos(pre)[k].content = AllTabInfos(rootInfoNode)[j].content
      /\ AllTabInfos(pre)[k].container # NULL )
    => AllTabInfos(rootInfoNode)[j].container = AllTabInfos(pre)[k].container

\* The groups that were in the tree before the last call and are in it now
\* have the tab widgets they had, in the same order; a group that has come is
\* around a tab widget made by the call.
TabWidgetsKept ==
  \/ getAllTabWidgets(rootInfoNode) = getAllTabWidgets(pre)
  \/ DroppedOne(getAllTabWidgets(pre), getAllTabWidgets(rootInfoNode))
  \/ /\ DroppedOne(getAllTabWidgets(rootInfoNode), getAllTabWidgets(pre))
     /\ Gained(getAllTabWidgets(pre), getAllTabWidgets(rootInfoNode)) > preCounter

\* The splitters that were in the tree before the last call and are in it now
\* have the splitter widgets they had: update() gives a widget to those that
\* had none and leaves the others alone; any other call leaves them all alone,
\* takes one splitter away, or brings in one splitter that has no widget yet.
SplitterWidgetsKept ==
  IF call = "update"
  THEN /\ Len(SplitterWidgets(rootInfoNode)) = Len(SplitterWidgets(pre))
       /\ \A k \in DOMAIN SplitterWidgets(pre) :
            /\ SplitterWidgets(rootInfoNode)[k].orientation
                 = SplitterWidgets(pre)[k].orientation
            /\ SplitterWidgets(pre)[k].splitter # NULL
                 => SplitterWidgets(rootInfoNode)[k].splitter
                      = SplitterWidgets(pre)[k].splitter
  ELSE \/ SplitterWidgets(rootInfoNode) = SplitterWidgets(pre)
       \/ DroppedOne(SplitterWidgets(pre), SplitterWidgets(rootInfoNode))
       \/ /\ DroppedOne(SplitterWidgets(rootInfoNode), SplitterWidgets(pre))
          /\ Gained(SplitterWidgets(pre), SplitterWidgets(rootInfoNode)).splitter = NULL

\* C23: the splitter widget of a splitter, the tab widget of a group and the
\* container of a slot, once there, are the same after every later call for
\* as long as the node is in the tree; a slot moved to another group keeps
\* its container.
C23_WidgetsAreStable ==
  /\ ContainersKept
  /\ TabWidgetsKept
  /\ SplitterWidgetsKept

\* update() has been called on a tree whose splitters, groups and slots all had
\* their widgets already.
C23_Witness ==
  /\ call = "update"
  /\ ~thrown
  /\ SplitterWidgets(pre) # <<>>
  /\ \A k \in DOMAIN SplitterWidgets(pre) : SplitterWidgets(pre)[k].splitter # NULL
  /\ AllTabInfos(pre) # <<>>
  /\ \A k \in DOMAIN AllTabInfos(pre) : AllTabInfos(pre)[k].container # NULL

\* A slot that had its container has been moved to another group.
MovedWithContainer ==
  /\ call = "moveTabToTabWidget"
  /\ ~thrown
  /\ rootInfoNode # pre
  /\ \A k \in DOMAIN AllTabInfos(pre) : AllTabInfos(pre)[k].container # NULL

\* No element of the sequence occurs twice.
NoDuplicates(s) == \A i, j \in DOMAIN s : s[i] = s[j] => i = j

\* s without the entries that are null.
NonNull(s) ==
  LET kept == {k \in DOMAIN s : s[k] # NULL}
      Nth(S, n) == CHOOSE k \in S : Cardinality({x \in S : x < k}) = n - 1
  IN  [n \in 1..Cardinality(kept) |-> s[Nth(kept, n)]]

\* The splitter widgets of the splitters that have one, in depth-first order.
LiveSplitterWidgets(root) ==
  NonNull([k \in DOMAIN SplitterWidgets(root) |-> SplitterWidgets(root)[k].splitter])

\* The containers of the slots that have one, in depth-first order.
LiveContainers(root) ==
  NonNull([k \in DOMAIN AllTabInfos(root) |-> AllTabInfos(root)[k].container])

\* C24: no two nodes of the tree refer to the same widget: the tab widgets of
\* the groups are pairwise distinct, so are the splitter widgets of the
\* splitters that have one, and so are the containers of the slots that have
\* one.
C24_WidgetsExclusivelyOwned ==
  /\ NoDuplicates(getAllTabWidgets(rootInfoNode))
  /\ NoDuplicates(LiveSplitterWidgets(rootInfoNode))
  /\ NoDuplicates(LiveContainers(rootInfoNode))

\* A tree of three groups and two splitters, all with their widgets, with two
\* slots that have their containers.
C24_Witness ==
  /\ Len(getAllTabWidgets(rootInfoNode)) = 3
  /\ Len(LiveSplitterWidgets(rootInfoNode)) = 2
  /\ Len(LiveContainers(rootInfoNode)) = 2

\* The groups of a tree in depth-first order, each with what it is qualified
\* for: `left` for the top left corner of the window, `right` for the top
\* right corner.  The root is qualified for both.  Of the children of a
\* vertical splitter the first keeps the left qualification of the splitter
\* and the last keeps its right qualification; of the children of a
\* horizontal splitter the first keeps both and the others keep none.
RECURSIVE QualifiedGroups(_, _, _)
QualifiedGroups(node, left, right) ==
  IF node.type = "tabwidget" THEN <<[node |-> node, left |-> left, right |-> right]>>
  ELSE Flatten([i \in DOMAIN node.children |->
         IF node.orientation = VERTICAL
         THEN QualifiedGroups(node.children[i], left /\ i = 1,
                              right /\ i = Len(node.children))
         ELSE QualifiedGroups(node.children[i], left /\ i = 1, right /\ i = 1)])

Groups(root) == QualifiedGroups(root, TRUE, TRUE)

\* The children of the tab widget of a group on the page.
ShownIn(group) == ChildrenOf(document, El("tabwidget", group.node.tabWidget))

\* The left space element of a group, if there is one: the top left element
\* for the group at the top left, the group's own default element otherwise.
ResolvedLeftSpace(group) ==
  IF group.left /\ topLeftElement # NULL THEN <<El("top", topLeftElement)>>
  ELSE IF group.node.leftSpaceDefaultElement # NULL
  THEN <<El("leftSpace", group.node.leftSpaceDefaultElement)>>
  ELSE <<>>

ResolvedRightSpace(group) ==
  IF group.right /\ topRightElement # NULL THEN <<El("top", topRightElement)>>
  ELSE IF group.node.rightSpaceDefaultElement # NULL
  THEN <<El("rightSpace", group.node.rightSpaceDefaultElement)>>
  ELSE <<>>

\* The tab and the container of every slot of a group in the order of the
\* slots; for a group without slots the empty tab and the empty container if
\* an empty split factory is set, and nothing if none is.
TabsAndContainers(node) ==
  IF Len(node.children) # 0
  THEN Flatten([k \in DOMAIN node.children |->
                  <<El("tab", node.children[k].tab),
                    El("container", node.children[k].container)>>])
  ELSE IF emptySplitFactory # NULL
  THEN <<El("tab", node.emptyTab), El("container", node.emptyContainer)>>
  ELSE <<>>

\* update() has just returned.
Updated == call = "update" /\ ~thrown

\* C25: after update() the children of every tab widget are its left space
\* element if there is one, then the tab and the container of each slot in
\* the order of the slots (or the empty tab and empty container of a group
\* without slots when an empty split factory is set, or nothing), then its
\* right space element if there is one.
C25_TabWidgetChildren ==
  Updated =>
    \A k \in DOMAIN Groups(rootInfoNode) :
      ShownIn(Groups(rootInfoNode)[k])
        = ResolvedLeftSpace(Groups(rootInfoNode)[k])
            \o TabsAndContainers(Groups(rootInfoNode)[k].node)
            \o ResolvedRightSpace(Groups(rootInfoNode)[k])

\* update() has shown a group of two slots between a left and a right space
\* element, next to a group without slots that shows its empty tab.
C25_Witness ==
  /\ Updated
  /\ \E k \in DOMAIN Groups(rootInfoNode) :
       /\ Len(Groups(rootInfoNode)[k].node.children) = 2
       /\ Len(ShownIn(Groups(rootInfoNode)[k])) = 6
  /\ \E k \in DOMAIN Groups(rootInfoNode) :
       /\ Len(Groups(rootInfoNode)[k].node.children) = 0
       /\ Groups(rootInfoNode)[k].node.emptyTab # NULL

\* update() has shown a group without slots and no empty split factory is set.
ShownEmptyWithoutFactory ==
  /\ Updated
  /\ emptySplitFactory = NULL
  /\ \E k \in DOMAIN Groups(rootInfoNode) :
       /\ Len(Groups(rootInfoNode)[k].node.children) = 0
       /\ Len(ShownIn(Groups(rootInfoNode)[k])) = 2

\* The RelativePosition of a group qualified as said.
PositionOf(left, right) ==
  IF left /\ right THEN TOP_WIDE
  ELSE IF left THEN TOP_LEFT
  ELSE IF right THEN TOP_RIGHT
  ELSE OTHER_

\* The positions update() computes for the groups under a node at `position`
\* (lines 678-692), in depth-first order.
RECURSIVE GroupPositions(_, _)
GroupPositions(node, position) ==
  IF node.type = "tabwidget" THEN <<position>>
  ELSE Flatten([i \in DOMAIN node.children |->
         GroupPositions(node.children[i],
           IF node.orientation = VERTICAL
           THEN _computeNewPositionForVerticalSplits(position, i - 1, Len(node.children))
           ELSE _computeNewPositionForHorizontalSplits(position, i - 1,
                                                       Len(node.children)))])

\* The top left element is among the children of the tab widget of the group.
ShowsTopLeft(group) ==
  \E k \in DOMAIN ShownIn(group) : ShownIn(group)[k] = El("top", topLeftElement)

ShowsTopRight(group) ==
  \E k \in DOMAIN ShownIn(group) : ShownIn(group)[k] = El("top", topRightElement)

\* C26: update() classifies the root top-wide and goes down from there: under
\* a vertical splitter the first child keeps the left qualification of the
\* splitter, the last keeps its right qualification and the children between
\* are other; under a horizontal splitter the first child keeps the
\* classification of the splitter and the later children are other; whatever
\* is under a node classified other is other.  The top left and top right
\* elements, when set, are shown by the groups so classified.
C26_PositionClassification ==
  /\ GroupPositions(rootInfoNode, TOP_WIDE)
       = [k \in DOMAIN Groups(rootInfoNode) |->
            PositionOf(Groups(rootInfoNode)[k].left, Groups(rootInfoNode)[k].right)]
  /\ Updated =>
       \A k \in DOMAIN Groups(rootInfoNode) :
         /\ topLeftElement # NULL =>
              (ShowsTopLeft(Groups(rootInfoNode)[k]) <=> Groups(rootInfoNode)[k].left)
         /\ topRightElement # NULL =>
              (ShowsTopRight(Groups(rootInfoNode)[k]) <=> Groups(rootInfoNode)[k].right)

\* update() has shown, with both top elements set, a vertical splitter of three
\* children whose middle child is a group.
C26_Witness ==
  /\ Updated
  /\ topLeftElement # NULL
  /\ topRightElement # NULL
  /\ rootInfoNode.type = "splitter"
  /\ rootInfoNode.orientation = VERTICAL
  /\ Len(rootInfoNode.children) = 3
  /\ GroupPositions(rootInfoNode, TOP_WIDE) = <<TOP_LEFT, OTHER_, TOP_RIGHT>>

\* update() has shown a splitter that is classified other.
ShownUnderOther ==
  /\ Updated
  /\ topLeftElement # NULL
  /\ topRightElement # NULL
  /\ rootInfoNode.type = "splitter"
  /\ rootInfoNode.orientation = HORIZONTAL
  /\ Len(rootInfoNode.children) = 2
  /\ rootInfoNode.children[2].type = "splitter"
  /\ GroupPositions(rootInfoNode, TOP_WIDE) = <<TOP_WIDE, OTHER_, OTHER_>>

\* The element is among the children of the tab widget of the group.
Shows(group, el) == \E k \in DOMAIN ShownIn(group) : ShownIn(group)[k] = el

\* What update() has done about the left side of the group that was `was`
\* before it: at the top left with a top left element set, the group shows
\* that element and not its own default; any other group has a default
\* element of its own if a factory for it is set, shows it first if it has
\* one, and shows nothing on that side if it has none.  A default element the
\* group had is the one it has.
LeftSideAsConfigured(group, was) ==
  /\ IF group.left /\ topLeftElement # NULL
     THEN /\ ShownIn(group) # <<>>
          /\ Head(ShownIn(group)) = El("top", topLeftElement)
          /\ ~Shows(group, El("leftSpace", group.node.leftSpaceDefaultElement))
     ELSE /\ leftSpaceDefaultElementFactory # NULL
               => group.node.leftSpaceDefaultElement # NULL
          /\ IF group.node.leftSpaceDefaultElement # NULL
             THEN /\ ShownIn(group) # <<>>
                  /\ Head(ShownIn(group))
                       = El("leftSpace", group.node.leftSpaceDefaultElement)
             ELSE \A k \in DOMAIN ShownIn(group) :
                    ShownIn(group)[k].tag # "leftSpace"
          /\ ~Shows(group, El("top", topLeftElement))
  /\ was.leftSpaceDefaultElement # NULL
       => group.node.leftSpaceDefaultElement = was.leftSpaceDefaultElement

RightSideAsConfigured(group, was) ==
  /\ IF group.right /\ topRightElement # NULL
     THEN /\ ShownIn(group) # <<>>
          /\ ShownIn(group)[Len(ShownIn(group))] = El("top", topRightElement)
          /\ ~Shows(group, El("rightSpace", group.node.rightSpaceDefaultElement))
     ELSE /\ rightSpaceDefaultElementFactory # NULL
               => group.node.rightSpaceDefaultElement # NULL
          /\ IF group.node.rightSpaceDefaultElement # NULL
             THEN /\ ShownIn(group) # <<>>
                  /\ ShownIn(group)[Len(ShownIn(group))]
                       = El("rightSpace", group.node.rightSpaceDefaultElement)
             ELSE \A k \in DOMAIN ShownIn(group) :
                    ShownIn(group)[k].tag # "rightSpace"
          /\ ~Shows(group, El("top", topRightElement))
  /\ was.rightSpaceDefaultElement # NULL
       => group.node.rightSpaceDefaultElement = was.rightSpaceDefaultElement

\* C27: after update() a group classified top-left or top-wide shows the top
\* left element if one is set, whatever default element it has, and a group
\* classified top-right or top-wide shows the top right element likewise;
\* every other group shows its own default element, made by the factory the
\* first time and kept from then on.
C27_SpaceElements ==
  Updated =>
    \A k \in DOMAIN Groups(rootInfoNode) :
      /\ LeftSideAsConfigured(Groups(rootInfoNode)[k], Groups(pre)[k].node)
      /\ RightSideAsConfigured(Groups(rootInfoNode)[k], Groups(pre)[k].node)

\* update() has shown the top left element in a group that has a default
\* element of its own for the left side, next to a group that shows its
\* default element for the second time.
C27_Witness ==
  /\ Updated
  /\ topLeftElement # NULL
  /\ \E k \in DOMAIN Groups(rootInfoNode) :
       /\ Groups(rootInfoNode)[k].left
       /\ Groups(pre)[k].node.leftSpaceDefaultElement # NULL
  /\ \E k \in DOMAIN Groups(rootInfoNode) :
       /\ ~Groups(rootInfoNode)[k].left
       /\ Groups(pre)[k].node.leftSpaceDefaultElement # NULL

\* The same on the right side.
ShownTopRightOverDefault ==
  /\ Updated
  /\ topRightElement # NULL
  /\ \E k \in DOMAIN Groups(rootInfoNode) :
       /\ Groups(rootInfoNode)[k].right
       /\ Groups(pre)[k].node.rightSpaceDefaultElement # NULL

\* The matrix of a directional query.
MatrixOf(name) ==
  CASE name = "getTabWidgetToLeft" -> <<-1, 0, 0, 1>>
    [] name = "getTabWidgetToRight" -> <<1, 0, 0, 1>>
    [] name = "getTabWidgetAbove" -> <<0, 1, -1, 0>>
    [] name = "getTabWidgetBelow" -> <<0, -1, 1, 0>>

\* The transformed boxes of the groups of the tree, in depth-first order.
TransformedBoxes(name) ==
  [k \in DOMAIN getPanePositions(rootInfoNode, geometry) |->
     transformTabWidgetPosition(getPanePositions(rootInfoNode, geometry)[k],
                                MatrixOf(name))]

\* The place in depth-first order of the group asked about.
Asking(boxes) == CHOOSE k \in DOMAIN boxes : boxes[k].tabWidget = session.subject

\* The candidates: the boxes whose left edge is beyond the centre of the asking
\* box and whose span from top to bottom holds it (bottom excluded).
Candidates(boxes) ==
  {k \in DOMAIN boxes :
     /\ 2 * boxes[k].left > boxes[Asking(boxes)].left + boxes[Asking(boxes)].right
     /\ 2 * boxes[k].top <= boxes[Asking(boxes)].top + boxes[Asking(boxes)].bottom
     /\ 2 * boxes[k].bottom > boxes[Asking(boxes)].top + boxes[Asking(boxes)].bottom}

\* The candidates with the least left edge.
Nearest(boxes) ==
  {k \in Candidates(boxes) : \A j \in Candidates(boxes) : boxes[k].left <= boxes[j].left}

\* The last call was a directional query about a group of the tree.
AskedDirection ==
  /\ session.calls = <<call>>
  /\ call \in DirectionalQueries
  /\ InTree(rootInfoNode, session.subject)

\* C28: a directional query returns, of the candidates, the group whose
\* transformed left edge is the least, the first in depth-first order if
\* several have that edge, and null if there is no candidate.
C28_NearestCandidate ==
  AskedDirection =>
    /\ ~thrown
    /\ \E boxes \in {TransformedBoxes(call)} :
         IF Candidates(boxes) = {} THEN result = NULL
         ELSE /\ Nearest(boxes) # {}
              /\ result = boxes[Min(Nearest(boxes))].tabWidget

\* A query has had two candidates with the same least left edge.
C28_Witness ==
  /\ AskedDirection
  /\ \E boxes \in {TransformedBoxes(call)} :
       /\ Cardinality(Nearest(boxes)) >= 2
       /\ result = boxes[Min(Nearest(boxes))].tabWidget

\* A query has had a candidate that comes, in depth-first order, before the
\* one with the least left edge.
NearestIsNotFirst ==
  /\ AskedDirection
  /\ \E boxes \in {TransformedBoxes(call)} :
       /\ Candidates(boxes) # {}
       /\ Min(Candidates(boxes)) < Min(Nearest(boxes))

\* A query has had no candidate.
NoCandidate ==
  /\ AskedDirection
  /\ Candidates(TransformedBoxes(call)) = {}

\* The place of the slot of content c among the slots of the tree, in
\* depth-first order; 0 if no slot holds c.
PlaceOf(root, c) == FirstSlot(AllTabInfos(root), "content", c)

\* The tab widget of the group whose slot holds c.
GroupOf(root, c) == NodeAt(root, findTabWidgetInfoByTabContent(root, c).path).tabWidget

\* The slots of a and b are in one group of the tree.
InOneGroup(root, a, b) ==
  /\ PlaceOf(root, a) # 0
  /\ PlaceOf(root, b) # 0
  /\ GroupOf(root, a) = GroupOf(root, b)

\* The slots of a and b, in one group before the last call and in one group
\* after it, are in the order they were in.
OrderKept(a, b) ==
  (InOneGroup(pre, a, b) /\ InOneGroup(rootInfoNode, a, b))
    => (PlaceOf(pre, a) < PlaceOf(pre, b)
          <=> PlaceOf(rootInfoNode, a) < PlaceOf(rootInfoNode, b))

\* C29: two slots that are in one group before a call and in one group after
\* it are in the same order after it as before, whatever the call, except that
\* moveTabToTabWidget may change the order between the slot it moves and the
\* others.
C29_SlotOrderKept ==
  \A a, b \in OrderContents :
    IF call = "moveTabToTabWidget"
    THEN \A c \in OrderContents, w \in Range(getAllTabWidgets(pre)), i \in TabIndexes :
           ( /\ Was("moveTabToTabWidget",
                    moveTabToTabWidget(pre, preCounter, TabOf(c), w, i))
             /\ a # c
             /\ b # c )
           => OrderKept(a, b)
    ELSE OrderKept(a, b)

\* A slot has been moved between the two slots of another group.
C29_Witness ==
  /\ call = "moveTabToTabWidget"
  /\ ~thrown
  /\ \E a, b, c \in OrderContents :
       /\ a # b
       /\ InOneGroup(pre, a, b)
       /\ ~InOneGroup(pre, a, c)
       /\ PlaceOf(pre, c) # 0
       /\ InOneGroup(rootInfoNode, a, c)
       /\ PlaceOf(rootInfoNode, a) < PlaceOf(rootInfoNode, c)
       /\ PlaceOf(rootInfoNode, c) < PlaceOf(rootInfoNode, b)

\* A split at a content, or the closing of a split, has left two slots in one
\* group that were in one group before.
OrderKeptThroughSplit ==
  /\ call \in {"splitAfterTabContent", "closeSplitAtTabContent"}
  /\ rootInfoNode # pre
  /\ \E a, b \in OrderContents :
       /\ a # b
       /\ InOneGroup(pre, a, b)
       /\ InOneGroup(rootInfoNode, a, b)

\* The sum of the first n pane sizes, each with a divider after it.
RECURSIVE PanesBefore(_, _, _)
PanesBefore(sizes, n, dividerSize) ==
  IF n = 0 THEN 0 ELSE PanesBefore(sizes, n - 1, dividerSize) + sizes[n] + dividerSize

\* The extent of the i-th child of a splitter of n children along its axis:
\* its pane and, unless it is the last, the divider after it.
ExtentOf(sizes, i, n, dividerSize) == sizes[i] + (IF i < n THEN dividerSize ELSE 0)

\* The box of the i-th child of a splitter whose box is `box`: along the axis
\* it starts where the children before it end, the first at the edge of the
\* splitter; across the axis it is as the splitter.
ChildBox(splitterNode, box, i) ==
  LET sizes == geometry.paneSizes[splitterNode.splitter]
      start == PanesBefore(sizes, i - 1, geometry.dividerSize)
      extent == ExtentOf(sizes, i, Len(splitterNode.children), geometry.dividerSize)
  IN  IF splitterNode.orientation = VERTICAL
      THEN [left |-> box.left + start, right |-> box.left + start + extent,
            width |-> extent,
            top |-> box.top, bottom |-> box.bottom, height |-> box.height]
      ELSE [top |-> box.top + start, bottom |-> box.top + start + extent,
            height |-> extent,
            left |-> box.left, right |-> box.right, width |-> box.width]

\* The box getPanePositions gives for the group around tabWidget.
BoxOf(tabWidget) ==
  LET positions == getPanePositions(rootInfoNode, geometry)
      p == positions[CHOOSE k \in DOMAIN positions : positions[k].tabWidget = tabWidget]
  IN  [left |-> p.left, right |-> p.right, width |-> p.width,
       top |-> p.top, bottom |-> p.bottom, height |-> p.height]

\* The boxes of the groups under the node are those that come of giving the
\* node `box` and every child of a splitter its ChildBox.
RECURSIVE Tiled(_, _)
Tiled(node, box) ==
  IF node.type = "tabwidget" THEN BoxOf(node.tabWidget) = box
  ELSE \A i \in DOMAIN node.children : Tiled(node.children[i], ChildBox(node, box, i))

\* The bounding rectangle of the root widget.
RootBox ==
  [left |-> geometry.bounds.left, right |-> geometry.bounds.right,
   width |-> geometry.bounds.width,
   top |-> geometry.bounds.top, bottom |-> geometry.bounds.bottom,
   height |-> geometry.bounds.height]

\* The layout has been laid out.
LaidOut == geometry # NoGeometry

\* C30: the boxes computed for the children of a splitter tile its box along
\* its axis: the first child starts at the left (vertical) or top (horizontal)
\* edge of the splitter, every child is as long as its pane plus, unless it is
\* the last, the divider, and starts where the one before ends; across the
\* axis every child is as the splitter.  A nested splitter does the same with
\* the box computed for it.
C30_BoxesTile ==
  LaidOut =>
    /\ Len(getPanePositions(rootInfoNode, geometry)) = Len(getAllTabWidgets(rootInfoNode))
    /\ Tiled(rootInfoNode, RootBox)

\* A query has computed the boxes of a splitter nested in another, with
\* dividers and with panes of different sizes.
C30_Witness ==
  /\ AskedDirection
  /\ geometry.dividerSize > 0
  /\ rootInfoNode.type = "splitter"
  /\ \E i \in DOMAIN rootInfoNode.children :
       /\ rootInfoNode.children[i].type = "splitter"
       /\ PaneSizesOf(rootInfoNode.children[i]) = <<1, 2>>
  /\ PaneSizesOf(rootInfoNode)[1] # PaneSizesOf(rootInfoNode)[2]

\* A query has computed the boxes of three panes in a row.
ThreeInARow ==
  /\ AskedDirection
  /\ geometry.dividerSize > 0
  /\ rootInfoNode.type = "splitter"
  /\ Len(rootInfoNode.children) = 3

\* ---------------------------------------------------------------------------
\* One group per corner.

\* The places, in depth-first order, of the groups that update() classifies
\* as one of `positions`.
Classified(positions) ==
  {k \in DOMAIN GroupPositions(rootInfoNode, TOP_WIDE) :
     GroupPositions(rootInfoNode, TOP_WIDE)[k] \in positions}

LeftEligible == Classified({TOP_LEFT, TOP_WIDE})

RightEligible == Classified({TOP_RIGHT, TOP_WIDE})

\* How often `el` occurs among the children of the tab widgets of the tree.
RECURSIVE Occurrences(_, _)
Occurrences(s, el) ==
  IF s = <<>> THEN 0
  ELSE (IF s[1] = el THEN 1 ELSE 0) + Occurrences(Tail(s), el)

TimesShown(el) ==
  Occurrences(Flatten([k \in DOMAIN Groups(rootInfoNode) |->
                         ShownIn(Groups(rootInfoNode)[k])]), el)

\* C31: in every tree reached update() classifies exactly one group as top
\* left or top wide and exactly one as top right or top wide; after update()
\* the top left element, when set, is a child of exactly one tab widget of the
\* tree, once, and so is the top right element.
C31_OneGroupPerCorner ==
  /\ Cardinality(LeftEligible) = 1
  /\ Cardinality(RightEligible) = 1
  /\ Updated /\ topLeftElement # NULL => TimesShown(El("top", topLeftElement)) = 1
  /\ Updated /\ topRightElement # NULL => TimesShown(El("top", topRightElement)) = 1

\* update() has shown, with both top elements set, a horizontal splitter whose
\* first child is a vertical splitter of two groups: one group is top left,
\* another is top right, the third is other.
C31_Witness ==
  /\ Updated
  /\ topLeftElement # NULL
  /\ topRightElement # NULL
  /\ rootInfoNode.type = "splitter"
  /\ rootInfoNode.orientation = HORIZONTAL
  /\ rootInfoNode.children[1].type = "splitter"
  /\ GroupPositions(rootInfoNode, TOP_WIDE) = <<TOP_LEFT, TOP_RIGHT, OTHER_>>
  /\ TimesShown(El("top", topLeftElement)) = 1
  /\ TimesShown(El("top", topRightElement)) = 1

\* ---------------------------------------------------------------------------
\* The left-eligible group is the first group.

\* C32: the group that update() classifies as top left or top wide is the
\* group whose tab widget firstTabWidget() returns, and after update() the top
\* left element, when set, is shown by that tab widget.
C32_LeftEligibleIsFirst ==
  /\ \A k \in LeftEligible :
       getAllTabWidgets(rootInfoNode)[k] = firstTabWidget(rootInfoNode)
  /\ Updated /\ topLeftElement # NULL =>
       \A k \in DOMAIN Groups(rootInfoNode) :
         ShowsTopLeft(Groups(rootInfoNode)[k])
           <=> Groups(rootInfoNode)[k].node.tabWidget = firstTabWidget(rootInfoNode)

\* update() has shown the top left element in the first group of a tree whose
\* root is a splitter with a splitter as its first child, so that the first
\* group lies two levels down.
C32_Witness ==
  /\ Updated
  /\ topLeftElement # NULL
  /\ rootInfoNode.type = "splitter"
  /\ rootInfoNode.children[1].type = "splitter"
  /\ rootInfoNode.children[1].children[1].type = "tabwidget"
  /\ firstTabWidget(rootInfoNode) = rootInfoNode.children[1].children[1].tabWidget
  /\ ShowsTopLeft(Groups(rootInfoNode)[1])
  /\ ~ShowsTopLeft(Groups(rootInfoNode)[2])

\* ---------------------------------------------------------------------------
\* isSplit and the number of groups.

\* C33: the tree always holds at least one tab-group, and isSplit() is true
\* exactly when getAllTabWidgets() lists two or more tab widgets.
C33_IsSplitIffTwoGroups ==
  /\ Len(getAllTabWidgets(rootInfoNode)) >= 1
  /\ isSplit(rootInfoNode) <=> Len(getAllTabWidgets(rootInfoNode)) >= 2

\* closeSplitAtTabContent has just merged two of three groups under a nested
\* splitter: two groups are left under the root and isSplit() is still true.
C33_Witness ==
  /\ call = "closeSplitAtTabContent"
  /\ ~thrown
  /\ Depth(pre) = 2
  /\ Len(getAllTabWidgets(pre)) = 3
  /\ Depth(rootInfoNode) = 1
  /\ Len(getAllTabWidgets(rootInfoNode)) = 2
  /\ isSplit(rootInfoNode)

\* closeSplitAtTabContent has just merged the last two groups: the root is a
\* single tab-group again and isSplit() is false.
SingleGroupAgain ==
  /\ call = "closeSplitAtTabContent"
  /\ ~thrown
  /\ isSplit(pre)
  /\ Len(getAllTabWidgets(rootInfoNode)) = 1
  /\ ~isSplit(rootInfoNode)

\* ---------------------------------------------------------------------------
\* Splitters under splitters of the same orientation.

\* Some splitter under `node` (or node itself) has a child splitter of its
\* own orientation.
RECURSIVE SameOrientationNested(_)
SameOrientationNested(node) ==
  /\ node.type = "splitter"
  /\ \E i \in DOMAIN node.children :
       \/ /\ node.children[i].type = "splitter"
          /\ node.children[i].orientation = node.orientation
       \/ SameOrientationNested(node.children[i])

SplitCalls == {"splitAfterTabWidget", "splitBeforeTabWidget", "splitAfterTabContent"}

\* C34 as stated: no splitter of the tree ever has a child splitter of its
\* own orientation.
C34_NoSameOrientationNesting == ~SameOrientationNested(rootInfoNode)

\* C34 amended: a split never puts a splitter under a splitter of the same
\* orientation (a tree without such a pair has none after the call), and
\* closeSplitAtTabContent does so only by lifting the last child of a splitter
\* it collapses, so that the tree has lost a splitter.
C34_OnlyCollapseNestsSameOrientation ==
  ~SameOrientationNested(pre) /\ SameOrientationNested(rootInfoNode) =>
    /\ call \notin SplitCalls
    /\ call = "closeSplitAtTabContent"
    /\ NumSplitters(rootInfoNode) < NumSplitters(pre)

\* splitAfterTabWidget has just split a group whose parent splitter has the
\* orientation asked for: the group has a new sibling and the tree has no
\* more splitters than before.
C34_Witness ==
  /\ call = "splitAfterTabWidget"
  /\ ~thrown
  /\ pre.type = "splitter"
  /\ ~SameOrientationNested(pre)
  /\ NumSplitters(rootInfoNode) = NumSplitters(pre)
  /\ Len(getAllTabWidgets(rootInfoNode)) = Len(getAllTabWidgets(pre)) + 1
  /\ ~SameOrientationNested(rootInfoNode)

\* closeSplitAtTabContent has just collapsed a splitter whose last child is a
\* splitter of the orientation of the splitter above.
LiftedIntoSameOrientation ==
  /\ call = "closeSplitAtTabContent"
  /\ ~SameOrientationNested(pre)
  /\ SameOrientationNested(rootInfoNode)

\* ---------------------------------------------------------------------------
\* Splits and merges keep the slots.

SplitAndCloseCalls == SplitCalls \cup {"closeSplitAtTabContent"}

\* C35: the three splits and closeSplitAtTabContent neither create nor lose a
\* slot: every (tab, content) pair is held by as many slots of the tree after
\* the call as before, whatever groups were made, merged or dropped.
C35_SplitsAndCloseKeepSlots ==
  call \in SplitAndCloseCalls =>
    /\ NumSlots(rootInfoNode) = NumSlots(pre)
    /\ SlotPairs(rootInfoNode) = SlotPairs(pre)
    /\ \A t \in Tabs, c \in Contents :
         SlotCount(rootInfoNode, t, c) = SlotCount(pre, t, c)

\* splitAfterTabContent has just cut a group of three slots in two, the new
\* group taking the slots after the content.
C35_Witness ==
  /\ call = "splitAfterTabContent"
  /\ ~thrown
  /\ NumSlots(pre) = 3
  /\ Len(getAllTabWidgets(rootInfoNode)) = Len(getAllTabWidgets(pre)) + 1
  /\ \E k \in DOMAIN getAllTabWidgets(rootInfoNode) :
       /\ getAllTabWidgets(rootInfoNode)[k] = result
       /\ Len(SlotsOf(rootInfoNode, result)) >= 1
       /\ Len(SlotsOf(rootInfoNode, result)) < 3

\* closeSplitAtTabContent has just dropped a group that held slots.
ClosedGroupWithSlots ==
  /\ call = "closeSplitAtTabContent"
  /\ ~thrown
  /\ NumSlots(pre) >= 2
  /\ \E w \in Range(getAllTabWidgets(pre)) \ Range(getAllTabWidgets(rootInfoNode)) :
       Len(SlotsOf(pre, w)) >= 1

\* ---------------------------------------------------------------------------
\* The order of getAllTabContents().

\* The merge partner of the group of content c in the tree `root` is a
\* splitter: closeSplitAtTabContent(c) goes through
\* _closeTabWidgetSplitterSplit.
PartnerIsSplitter(root, c) ==
  LET hit == findPathToTabContent(root, c)
  IN  /\ hit # NoHit
      /\ hit.path # <<>>
      /\ LET parent == NodeAt(root, Front(hit.path))
             k == Last(hit.path)
         IN  parent.children[IF k < Len(parent.children) THEN k + 1 ELSE k - 1].type
               = "splitter"

\* The last call was closeSplitAtTabContent(c) for a content c whose group
\* has a splitter as merge partner.
ClosedIntoSplitter ==
  /\ call = "closeSplitAtTabContent"
  /\ \E c \in Contents :
       /\ PartnerIsSplitter(pre, c)
       /\ Was("closeSplitAtTabContent", closeSplitAtTabContent(pre, preCounter, c))

\* The last call was closeSplitAtTabContent(c) and no content it can have
\* been called with has a splitter as merge partner.
ClosedBetweenGroups ==
  /\ call = "closeSplitAtTabContent"
  /\ \A c \in Contents :
       Was("closeSplitAtTabContent", closeSplitAtTabContent(pre, preCounter, c))
         => ~PartnerIsSplitter(pre, c)

\* C36 as stated: getAllTabContents() returns the same sequence after each of
\* the three splits and after closeSplitAtTabContent as before it, also when
\* the merge partner is a splitter.
C36_ContentOrderKept ==
  call \in SplitAndCloseCalls =>
    getAllTabContents(rootInfoNode) = getAllTabContents(pre)

\* C36 amended: the sequence is the same after each of the three splits and
\* after a closeSplitAtTabContent that merges two tab-groups; after one that
\* merges a group into a splitter the sequence holds the same contents, each
\* as often as before.
C36_ContentOrderKeptBetweenGroups ==
  /\ call \in SplitCalls \/ ClosedBetweenGroups =>
       getAllTabContents(rootInfoNode) = getAllTabContents(pre)
  /\ ClosedIntoSplitter =>
       \A c \in Contents : ContentCount(rootInfoNode, c) = ContentCount(pre, c)

\* closeSplitAtTabContent has just merged two tab-groups that held different
\* contents, the content it was called with being in the right one.
C36_Witness ==
  /\ ClosedBetweenGroups
  /\ ~thrown
  /\ pre.type = "splitter"
  /\ Len(pre.children) = 2
  /\ pre.children[1].type = "tabwidget"
  /\ pre.children[2].type = "tabwidget"
  /\ getAllTabContents(pre.children[1]) = <<1>>
  /\ getAllTabContents(pre.children[2]) = <<2>>
  /\ Was("closeSplitAtTabContent", closeSplitAtTabContent(pre, preCounter, 2))
  /\ getAllTabContents(rootInfoNode) = <<1, 2>>

\* closeSplitAtTabContent has just moved the slots of a group into a splitter
\* and getAllTabContents() lists the contents in another order than before.
OrderChangedByClose ==
  /\ ClosedIntoSplitter
  /\ ~thrown
  /\ getAllTabContents(rootInfoNode) # getAllTabContents(pre)

\* ---------------------------------------------------------------------------
\* The survivor of a merge of two tab-groups.

\* C37: closeSplitAtTabContent(c) that merges two tab-groups keeps the node
\* and the tab widget of the left one of the two, with the slots of both, and
\* drops the right one, whether c was in the left or in the right group;
\* getTabWidgetByTabContent(c) then returns the tab widget of the left group.
C37_LeftGroupSurvives ==
  \A c \in Contents :
    LET hit == findPathToTabContent(pre, c)
    IN  ( /\ call = "closeSplitAtTabContent"
          /\ Was("closeSplitAtTabContent", closeSplitAtTabContent(pre, preCounter, c))
          /\ hit # NoHit
          /\ hit.path # <<>>
          /\ ~PartnerIsSplitter(pre, c) )
        =>
        LET parent == NodeAt(pre, Front(hit.path))
            k == Last(hit.path)
            l == IF k < Len(parent.children) THEN k ELSE k - 1
            leftInfo == parent.children[l]
            rightInfo == parent.children[l + 1]
        IN  /\ ~thrown
            /\ InTree(rootInfoNode, leftInfo.tabWidget)
            /\ ~InTree(rootInfoNode, rightInfo.tabWidget)
            /\ NodeAt(rootInfoNode, findPathToTabWidget(rootInfoNode, leftInfo.tabWidget))
                 = [leftInfo EXCEPT !.children = leftInfo.children \o rightInfo.children]
            /\ getTabWidgetByTabContent(rootInfoNode, c) = Answer(leftInfo.tabWidget)

\* closeSplitAtTabContent(c) has just merged the last two children of a
\* splitter of three tab-groups, c being held by the last one only: the
\* second group has survived and holds c.
C37_Witness ==
  /\ call = "closeSplitAtTabContent"
  /\ ~thrown
  /\ pre.type = "splitter"
  /\ Len(pre.children) = 3
  /\ \A i \in 1..3 : pre.children[i].type = "tabwidget"
  /\ \E c \in Contents :
       /\ findPathToTabContent(pre, c) # NoHit
       /\ findPathToTabContent(pre, c).path = <<3>>
       /\ Was("closeSplitAtTabContent", closeSplitAtTabContent(pre, preCounter, c))
       /\ getTabWidgetByTabContent(rootInfoNode, c) = Answer(pre.children[2].tabWidget)
  /\ Len(rootInfoNode.children) = 2
  /\ ~InTree(rootInfoNode, pre.children[3].tabWidget)

\* ---------------------------------------------------------------------------
\* A directional query never answers with the group asked about.

\* C38: getTabWidgetToLeft, getTabWidgetToRight, getTabWidgetAbove and
\* getTabWidgetBelow, asked about a group of the tree, never return the tab
\* widget of that group.
C38_NeverItself ==
  AskedDirection => result # session.subject

\* A query about a group whose box has no extent along the direction asked,
\* so that its edge is at its centre, has returned another group.
C38_Witness ==
  /\ AskedDirection
  /\ ~thrown
  /\ \E boxes \in {TransformedBoxes(call)} :
       /\ boxes[Asking(boxes)].left = boxes[Asking(boxes)].right
       /\ boxes[Asking(boxes)].top < boxes[Asking(boxes)].bottom
  /\ result # NULL
  /\ result # session.subject

\* ---------------------------------------------------------------------------
\* Every slot is a slot.

\* Every element of the slot sequence of every group under `root` is a slot.
RealSlots(root) ==
  \A k \in DOMAIN Groups(root) :
    \A j \in DOMAIN Groups(root)[k].node.children :
      Groups(root)[k].node.children[j].type = "tabinfo"

\* The empty tabs update() has made for the groups of the tree.
EmptyTabs(root) ==
  {Groups(root)[k].node.emptyTab : k \in DOMAIN Groups(root)} \ {NULL}

\* A caller that shows the layout with an empty split factory set and hands
\* the empty tab of a group to moveTabToTabWidget, as a drag of that tab does.
\* Once a group holds a null among its slots the caller makes no further call:
\* every method that walks the slots would read a field of null.
EmptyUpdate == RealSlots(rootInfoNode) /\ Update

EmptyAppendTab == RealSlots(rootInfoNode) /\ ShownAppendTab

EmptySplitAfterTabWidget == RealSlots(rootInfoNode) /\ ShownSplitAfterTabWidget

MoveEmptyTabToTabWidget ==
  /\ rootContainer # NULL
  /\ RealSlots(rootInfoNode)
  /\ \E t \in EmptyTabs(rootInfoNode), w \in Range(getAllTabWidgets(rootInfoNode)),
        i \in 0..1 :
       Change("moveTabToTabWidget",
              moveTabToTabWidget(rootInfoNode, tabWidgetIdCounter, t, w, i), NULL, FALSE)

NextEmptyTab ==
  \/ SetRootContainer
  \/ SetEmptySplitElementFactory
  \/ EmptyUpdate
  \/ EmptyAppendTab
  \/ EmptySplitAfterTabWidget
  \/ MoveEmptyTabToTabWidget

SpecEmptyTab == Init /\ [][NextEmptyTab]_vars

\* C39: every element of the slot sequence of every group is a slot with a
\* tab and a content, never null; moveTabToTabWidget called with the empty tab
\* of a group puts nothing into the slots of the target.
C39_EverySlotIsReal == RealSlots(rootInfoNode)

\* moveTabToTabWidget has been called with the empty tab of a group without
\* slots and has returned.
C39_Witness ==
  /\ call = "moveTabToTabWidget"
  /\ ~thrown
  /\ \E t \in EmptyTabs(pre) :
       /\ findTabWidgetInfoByTab(pre, t) # NoHit
       /\ findTabWidgetInfoByTab(pre, t).slot = 0

\* The same call with the empty tab of a group that has slots by now finds
\* nothing and ends in a TypeError.
MovedStaleEmptyTab ==
  /\ call = "moveTabToTabWidget"
  /\ thrown
  /\ rootInfoNode = pre
=============================================================================
